---- MODULE Spec2Model ----
(***************************************************************************)
(* Paper-trading engine of backend/trading_bot.py (class TradingBot).      *)
(*                                                                         *)
(* Numbers.  Python floats are modelled in fixed point:                    *)
(*   prices  in thousandths        (PriceOne = 1.0)                        *)
(*   money   in cents              (InitialBalance = 2000.0)              *)
(* A quotient is truncated to the resolution (\div).                       *)
(*                                                                         *)
(* Scheduling.  The three loops are asyncio tasks on one event loop: a     *)
(* task runs without interruption until it reaches an await that really    *)
(* suspends (a network call or a sleep).  `cur` names the task that holds  *)
(* the event loop, or NoTask when every task is parked at an await.        *)
(***************************************************************************)
EXTENDS Integers, Sequences, FiniteSets, TLC

VARIABLES
    \* ---- TradingBot fields (trading_bot.py:77-88) ----
    balance,          \* self.balance
    positions,        \* self.positions: dict in insertion order, <<[key, obj]>>
    heap,             \* the TradingPosition objects ever created, by identity
    trades,           \* self.trades, newest first
    market_analyses,  \* self.market_analyses: market id -> MarketAnalysis
    price_history,    \* self.price_history: market id -> prices, oldest first
    pnl_history,      \* self.pnl_history: <<[t, pnl]>>
    is_running,       \* self.is_running
    task,             \* the three asyncio tasks: loop -> task state
    \* ---- event loop and environment ----
    cur,              \* task holding the event loop
    now,              \* wall clock, seconds
    feed,             \* what the market data source would return now
    has_clob,         \* polymarket_client.clob_client is set (trading_bot.py:289)
    ticks,            \* events of the environment so far: changes, failures
    stops,            \* number of stop() calls since the last start()
    \* ---- locals of the coroutines ----
    tl,               \* _trading_loop
    pl,               \* _position_update_loop
    sl,               \* _scalping_loop
    \* ---- bookkeeping of the verification ----
    realized,         \* sum of the profit of every close performed so far
    last,             \* the ledger operation applied by the last step
    \* ---- price extractor run on one record ----
    px_market,        \* the record given to _get_outcome_prices
    px_result         \* what it returned, or PxPending

vars == <<balance, positions, heap, trades, market_analyses, price_history,
          pnl_history, is_running, task, cur, now, feed, ticks, stops,
          tl, pl, sl, realized, last, px_market, has_clob, px_result>>

ledgerVars == <<balance, positions, heap, trades, market_analyses,
                price_history, pnl_history, is_running, task, cur, now, feed,
                ticks, stops, tl, pl, sl, realized, last>>

pxVars == <<px_market, has_clob, px_result>>

(***************************************************************************)
(* Values of loosely typed market records                                  *)
(***************************************************************************)
\* Python None, or a key that is absent from the dict
NONE == -987654321
\* a value float() rejects (ValueError / TypeError)
BAD == -987654322
\* a float NaN, which float() accepts ("nan", or NaN in a JSON body): every
\* comparison with it is false, arithmetic on it gives NaN
NAN == -987654323
\* 1.0 in price units
PriceOne == 1000

\* 1.0 - v
OneMinus(v) == IF v = NAN THEN NAN ELSE PriceOne - v

IsNumber(v) == v # NONE /\ v # BAD

\* px_result before the extractor has returned
PxPending == <<BAD, BAD>>

\* the test `0 < price < 1` of the extractor
InUnit(v) == IsNumber(v) /\ 0 < v /\ v < PriceOne

(***************************************************************************)
(* PriceExtractor: TradingBot._get_outcome_prices                          *)
(***************************************************************************)
\* for token in tokens: a YES / NO token whose price is a number in (0,1)
\* sets that side (trading_bot.py:273-286 and 313-326)
RECURSIVE TokenScan(_, _, _)
TokenScan(tokens, py, pn) ==
    IF tokens = <<>> THEN <<py, pn>>
    ELSE LET tok == Head(tokens)
             hit == InUnit(tok.price)
         IN  TokenScan(Tail(tokens),
                       IF hit /\ tok.outcome = "YES" THEN tok.price ELSE py,
                       IF hit /\ tok.outcome = "NO" THEN tok.price ELSE pn)

\* for price_field in names: price = float(d[price_field]); stop at the first
\* value in (0,1).  A value float() rejects is skipped; a number outside (0,1)
\* stays assigned while the scan goes on.
RECURSIVE FieldScan(_, _, _)
FieldScan(d, names, price) ==
    IF names = <<>> THEN price
    ELSE LET v == d[Head(names)]
         IN  IF ~IsNumber(v) THEN FieldScan(d, Tail(names), price)
             ELSE IF InUnit(v) THEN v
             ELSE FieldScan(d, Tail(names), v)

OutcomePriceFields ==
    <<"price", "newestPrice", "lastPrice", "currentPrice", "yesPrice", "noPrice">>

MarketPriceFields == <<"newestPrice", "price", "lastPrice", "currentPrice">>

FallbackPriceFields ==
    <<"newestPrice", "price", "lastPrice", "currentPrice", "yesPrice">>

\* price of one outcome dict: its own price fields, then the market's
\* (trading_bot.py:339-357)
OutcomePrice(market, o) ==
    IF FieldScan(o, OutcomePriceFields, NONE) = NONE
    THEN FieldScan(market, MarketPriceFields, NONE)
    ELSE FieldScan(o, OutcomePriceFields, NONE)

\* the assignment one outcome dict with that price makes (trading_bot.py:
\* 359-374): by name, and for other names the first side still unset
OutcomeAssign(o, price, py, pn) ==
    IF ~InUnit(price) THEN <<py, pn>>
    ELSE IF o.name = "YES" THEN <<price, pn>>
    ELSE IF o.name = "NO" THEN <<py, price>>
    ELSE IF py = NONE THEN <<price, pn>>
    ELSE IF pn = NONE THEN <<py, price>>
    ELSE <<py, pn>>

\* `for outcome in outcomes` (trading_bot.py:337-374)
RECURSIVE OutcomeScan(_, _, _)
OutcomeScan(market, outs, s) ==
    IF outs = <<>> THEN s
    ELSE IF ~Head(outs).isdict THEN OutcomeScan(market, Tail(outs), s)
    ELSE OutcomeScan(market, Tail(outs),
                     OutcomeAssign(Head(outs), OutcomePrice(market, Head(outs)),
                                   s[1], s[2]))

\* one of the two prices is still None
Missing(s) == s[1] = NONE \/ s[2] = NONE

\* step 1, the record's own tokens array (trading_bot.py:271-286)
OwnTokens(market) == TokenScan(market.tokens, NONE, NONE)

\* step 2 is taken, and the coroutine suspends on the CLOB call
\* (trading_bot.py:289-302)
NeedsClob(market, hasClob) ==
    hasClob /\ market.condition_id /\ Missing(OwnTokens(market))

\* step 2, the tokens array of the CLOB answer (trading_bot.py:289-330)
ClobTokens(market, hasClob, clobTokens, s) ==
    IF hasClob /\ market.condition_id /\ Missing(s)
    THEN TokenScan(clobTokens, s[1], s[2])
    ELSE s

\* step 3, the outcomes array (trading_bot.py:332-374)
Outcomes(market, s) ==
    IF Len(market.outcomes) >= 2 THEN OutcomeScan(market, market.outcomes, s)
    ELSE s

\* step 4, the direct price fields of the record (trading_bot.py:376-385)
FallbackPrice(market, s) ==
    IF s[1] = NONE THEN <<FieldScan(market, FallbackPriceFields, NONE), s[2]>>
    ELSE s

\* steps 5 and 6, the complement of the side that is known and the result
\* (trading_bot.py:387-399)
Complement(s) ==
    IF s[1] # NONE /\ s[2] = NONE THEN <<s[1], OneMinus(s[1])>>
    ELSE IF s[2] # NONE /\ s[1] = NONE THEN <<OneMinus(s[2]), s[2]>>
    ELSE IF Missing(s) THEN <<NONE, NONE>>
    ELSE s

\* _get_outcome_prices(market, polymarket_client); clobTokens is the tokens
\* array the CLOB call answers with (<<>> when it fails or is empty)
GetOutcomePrices(market, hasClob, clobTokens) ==
    Complement(FallbackPrice(market,
        Outcomes(market, ClobTokens(market, hasClob, clobTokens,
                                    OwnTokens(market)))))

(***************************************************************************)
(* MarketAnalyzer: TradingBot.analyze_market                               *)
(* Scores, momentum, trend and sentiment are in thousandths; volume and    *)
(* liquidity are whole dollars.                                            *)
(***************************************************************************)
Abs(x) == IF x < 0 THEN -x ELSE x

Min(a, b) == IF a <= b THEN a ELSE b

Max(a, b) == IF a >= b THEN a ELSE b

\* a / b truncated toward zero
Quot(a, b) == IF a >= 0 THEN a \div b ELSE -((-a) \div b)

RECURSIVE SeqSum(_)
SeqSum(q) == IF q = <<>> THEN 0 ELSE Head(q) + SeqSum(Tail(q))

\* q[-n:]
LastN(q, n) == IF Len(q) <= n THEN q ELSE SubSeq(q, Len(q) - n + 1, Len(q))

\* q[:n]
FirstN(q, n) == IF Len(q) <= n THEN q ELSE SubSeq(q, 1, n)

NoAnalysis == [market_id |-> ""]

\* self.price_history[market_id][-20:]
HistoryCap == 20

\* float(market.get('volume24h', volume))
Volume24h(market) ==
    IF market.volume24h = NONE THEN market.volume ELSE market.volume24h

\* min(1.0, volume_24h / 50000) if volume_24h > 0 else 0.3
VolumeFactor(market) ==
    IF Volume24h(market) > 0
    THEN Min(1000, (Volume24h(market) * 1000) \div 50000)
    ELSE 300

\* min(20, liquidity / 1000) if liquidity > 0 else 10
LiquidityScore(market) ==
    IF market.liquidity > 0 THEN Min(20000, market.liquidity) ELSE 10000

\* the analysis returned when no price could be extracted
\* (trading_bot.py:417-445): default prices 0.5 / 0.5
DefaultAnalysis(market) ==
    LET minimal == 5000 + VolumeFactor(market) * 30 + LiquidityScore(market)
    IN  [market_id |-> market.id, volume |-> market.volume,
         liquidity |-> market.liquidity, trend |-> 0, momentum |-> 0,
         sentiment |-> 500, score |-> minimal, arbitrage_opportunity |-> NONE,
         price_yes |-> 500, price_no |-> 500, volume_24h |-> Volume24h(market),
         volume_score |-> VolumeFactor(market) * 50
                          + (LiquidityScore(market) * 3) \div 2,
         context_score |-> minimal]

\* momentum = (recent[-1] - recent[0]) * 100 over the last <= 5 samples
Momentum(hist) ==
    IF Len(hist) >= 2
    THEN (LastN(hist, 5)[Len(LastN(hist, 5))] - LastN(hist, 5)[1]) * 100
    ELSE 0

\* trend = (mean of last 3 - mean of last 5) * 10, with >= 5 samples
Trend(hist) ==
    IF Len(hist) >= 5
    THEN Quot((5 * SeqSum(LastN(hist, 3)) - 3 * SeqSum(LastN(hist, 5))) * 10, 15)
    ELSE 0

\* (1 - (yes + no)) * 100 when the sum is below 0.98 and the profit above 0.5
ArbitrageOpportunity(py, pn) ==
    IF py + pn < 980 /\ (PriceOne - (py + pn)) * 100 > 500
    THEN (PriceOne - (py + pn)) * 100
    ELSE NONE

\* max(0, min(1, base_sentiment * (0.6 + volume_factor * 0.4)))
Sentiment(market, momentum) ==
    LET base == 500 + Quot(momentum, 200)
        weight == 600 + (VolumeFactor(market) * 400) \div 1000
    IN  Max(0, Min(1000, Quot(base * weight, 1000)))

\* the tiered bonus on the distance of price_yes from 0.5
MeanReversionScore(py) ==
    IF (250 < py /\ py < 450) \/ (550 < py /\ py < 750) THEN 12000
    ELSE IF (200 < py /\ py < 300) \/ (700 < py /\ py < 800) THEN 18000
    ELSE IF py < 200 \/ py > 800 THEN 25000
    ELSE Abs(py - 500) * 30

MomentumScore(py, hist) ==
    IF Len(hist) >= 2
    THEN (IF Abs(Momentum(hist)) > 500 THEN Abs(Momentum(hist)) \div 2 ELSE 0)
    ELSE Abs(py - 500) * 20

TrendScore(py, hist) ==
    IF Len(hist) >= 5
    THEN (IF Abs(Trend(hist)) > 50 THEN Abs(Trend(hist)) * 2 ELSE 0)
    ELSE Abs(py - 500) * 15

\* raw_score = base + volume + momentum + trend + liquidity + mean reversion
RawScore(market, py, hist) ==
    5000 + VolumeFactor(market) * 30 + MomentumScore(py, hist)
    + TrendScore(py, hist) + LiquidityScore(market) + MeanReversionScore(py)

\* 80 + min(20, arbitrage_opportunity * 2)
ArbitrageScore(arb) == 80000 + Min(20000, arb * 2)

ContextScore(market, py, hist) ==
    Abs(MomentumScore(py, hist) * 2 + TrendScore(py, hist) * 3
        + ((Sentiment(market, Momentum(hist)) - 500) * 40)
        + MeanReversionScore(py) + 5000)

\* the history after `append((now, price_yes))` and `[-20:]`
PushHistory(hist, py) == LastN(Append(hist, py), HistoryCap)

\* analyze_market once prices = _get_outcome_prices(market) is known and hist
\* is self.price_history.get(market_id, []).  With an arbitrage opportunity the
\* return statement reads volume_score_value and context_score_value, which
\* only the other branch assigns: UnboundLocalError (trading_bot.py:506-601).
AnalyzeMarket(market, prices, hist) ==
    IF prices = <<NONE, NONE>>
    THEN [raised |-> FALSE, analysis |-> DefaultAnalysis(market), history |-> hist]
    ELSE LET py == prices[1]
             pn == prices[2]
             h == PushHistory(hist, py)
             arb == ArbitrageOpportunity(py, pn)
         IN  IF arb # NONE /\ arb # 0
             THEN [raised |-> TRUE, analysis |-> NoAnalysis, history |-> h]
             ELSE [raised |-> FALSE,
                   analysis |->
                      [market_id |-> market.id, volume |-> market.volume,
                       liquidity |-> market.liquidity, trend |-> Trend(h),
                       momentum |-> Momentum(h),
                       sentiment |-> Sentiment(market, Momentum(h)),
                       score |-> RawScore(market, py, h),
                       arbitrage_opportunity |-> arb,
                       price_yes |-> py, price_no |-> pn,
                       volume_24h |-> Volume24h(market),
                       volume_score |-> VolumeFactor(market) * 50
                                        + (LiquidityScore(market) * 3) \div 2,
                       context_score |-> ContextScore(market, py, h)],
                   history |-> h]

(***************************************************************************)
(* PositionLedger: balance, positions, trades, P&L history                 *)
(***************************************************************************)
\* TradingBot(initial_balance=2000.0)
InitialBalance == 200000

\* position_key = f"{market_id}-{outcome}"
PositionKey(market_id, outcome) == <<market_id, outcome>>

\* key in self.positions
HasKey(d, k) == \E i \in 1..Len(d) : d[i].key = k

\* self.positions[k], the identity of the object stored under k
ObjOf(d, k) == d[CHOOSE i \in 1..Len(d) : d[i].key = k].obj

\* self.positions[k] = o: an existing key keeps its place, a new one goes last
DictPut(d, k, o) ==
    IF HasKey(d, k)
    THEN [i \in 1..Len(d) |-> IF d[i].key = k THEN [key |-> k, obj |-> o] ELSE d[i]]
    ELSE Append(d, [key |-> k, obj |-> o])

\* del self.positions[k]
DictDel(d, k) == SelectSeq(d, LAMBDA e : e.key # k)

\* the ledger part of the state, as one value
Ledger ==
    [balance |-> balance, positions |-> positions, heap |-> heap,
     trades |-> trades, pnl_history |-> pnl_history, realized |-> realized]

SetLedger(L) ==
    /\ balance' = L.balance
    /\ positions' = L.positions
    /\ heap' = L.heap
    /\ trades' = L.trades
    /\ pnl_history' = L.pnl_history
    /\ realized' = L.realized

\* sum(t.profit for t in self.trades if t.profit is not None)
RECURSIVE RealizedPnl(_)
RealizedPnl(ts) ==
    IF ts = <<>> THEN 0
    ELSE (IF Head(ts).profit # NONE THEN Head(ts).profit ELSE 0)
         + RealizedPnl(Tail(ts))

\* sum(p.unrealized_pnl for p in self.positions.values())
RECURSIVE UnrealizedPnl(_, _)
UnrealizedPnl(d, h) ==
    IF d = <<>> THEN 0 ELSE h[Head(d).obj].unrealized_pnl + UnrealizedPnl(Tail(d), h)

\* net_worth of get_stats(): self.initial_balance + realized_pnl +
\* unrealized_pnl, the realized part summed over self.trades
\* (trading_bot.py:1958-1974)
NetWorth(L) ==
    InitialBalance + RealizedPnl(L.trades) + UnrealizedPnl(L.positions, L.heap)

\* len(self.pnl_history) > 200 keeps the last 200
PnlHistoryCap == 200

\* _update_pnl_history that takes a sample at every call
UpdatePnlHistoryEveryCall(L, t) ==
    LET total == RealizedPnl(L.trades) + UnrealizedPnl(L.positions, L.heap)
        h == L.pnl_history
        h2 == IF h = <<>> THEN <<[t |-> t, pnl |-> 0]>>
              ELSE Append(h, [t |-> t, pnl |-> total])
    IN  [L EXCEPT !.pnl_history = LastN(h2, PnlHistoryCap)]

\* _update_pnl_history at time t
UpdatePnlHistory(L, t) ==
    LET total == RealizedPnl(L.trades) + UnrealizedPnl(L.positions, L.heap)
        h == L.pnl_history
        lastpt == h[Len(h)]
        h2 == IF h = <<>> THEN <<[t |-> t, pnl |-> 0]>>
              ELSE IF Abs(total - lastpt.pnl) > 10 \/ t - lastpt.t > 30
                   THEN Append(h, [t |-> t, pnl |-> total])
                   ELSE h
    IN  [L EXCEPT !.pnl_history = LastN(h2, PnlHistoryCap)]

\* _open_position without the test of trading_bot.py:1792-1793: the position
\* is created and the balance debited whatever the size
OpenPositionUnchecked(L, market_id, outcome, price, size, strategy, reason, trade_type, t) ==
    LET position ==
            [market_id |-> market_id, outcome |-> outcome,
             entry_price |-> price, size |-> size, entry_time |-> t,
             current_price |-> price, unrealized_pnl |-> 0,
             strategy |-> strategy, trade_type |-> trade_type]
        trade ==
            [market_id |-> market_id, timestamp |-> t, action |-> "BUY",
             outcome |-> outcome, price |-> price, size |-> size,
             reason |-> reason, profit |-> NONE, strategy |-> strategy,
             trade_type |-> trade_type]
    IN  [L EXCEPT
            !.heap = Append(L.heap, position),
            !.positions = DictPut(L.positions, PositionKey(market_id, outcome),
                                  Len(L.heap) + 1),
            !.balance = L.balance - size,
            !.trades = <<trade>> \o L.trades]

\* _open_position with self.trades.append(trade) in place of
\* self.trades.insert(0, trade) (trading_bot.py:1831)
OpenPositionAppendsTrade(L, market_id, outcome, price, size, strategy, reason, trade_type, t) ==
    LET R == OpenPositionUnchecked(L, market_id, outcome, price, size,
                                   strategy, reason, trade_type, t)
    IN  IF size > L.balance THEN L
        ELSE [R EXCEPT !.trades = L.trades \o <<Head(R.trades)>>]

\* _open_position(market, analysis, outcome, title, price, size, strategy,
\* reason, trade_type) at time t
OpenPosition(L, market_id, outcome, price, size, strategy, reason, trade_type, t) ==
    IF size > L.balance THEN L
    ELSE LET position ==
                 [market_id |-> market_id, outcome |-> outcome,
                  entry_price |-> price, size |-> size, entry_time |-> t,
                  current_price |-> price, unrealized_pnl |-> 0,
                  strategy |-> strategy, trade_type |-> trade_type]
             trade ==
                 [market_id |-> market_id, timestamp |-> t, action |-> "BUY",
                  outcome |-> outcome, price |-> price, size |-> size,
                  reason |-> reason, profit |-> NONE, strategy |-> strategy,
                  trade_type |-> trade_type]
         IN  [L EXCEPT
                 !.heap = Append(L.heap, position),
                 !.positions = DictPut(L.positions,
                                       PositionKey(market_id, outcome),
                                       Len(L.heap) + 1),
                 !.balance = L.balance - size,
                 !.trades = <<trade>> \o L.trades]

\* _close_position with a current value and a profit given by `worth`, and
\* with or without the test of trading_bot.py:1843-1844
ClosePositionAs(L, obj, current_price, reason, t, worth, guarded) ==
    LET position == L.heap[obj]
        key == PositionKey(position.market_id, position.outcome)
        credited == [L EXCEPT !.balance = L.balance + worth.credit]
        sampled == UpdatePnlHistory(credited, t)
        trade ==
            [market_id |-> position.market_id, timestamp |-> t,
             action |-> "SELL", outcome |-> position.outcome,
             price |-> current_price, size |-> position.size, reason |-> reason,
             profit |-> worth.profit, strategy |-> position.strategy,
             trade_type |-> position.trade_type]
    IN  IF guarded /\ ~HasKey(L.positions, key) THEN L
        ELSE [sampled EXCEPT
                 !.trades = <<trade>> \o sampled.trades,
                 !.positions = DictDel(sampled.positions, key),
                 !.realized = sampled.realized + worth.profit]

\* _close_position valuing the position by the price difference,
\* size + size * (current_price - entry_price), in place of
\* size * (current_price / entry_price) (trading_bot.py:1849)
ClosePositionByDifference(L, obj, current_price, reason, t) ==
    LET position == L.heap[obj]
        current_value ==
            position.size
            + Quot(position.size * (current_price - position.entry_price),
                   PriceOne)
    IN  ClosePositionAs(L, obj, current_price, reason, t,
                        [credit |-> current_value,
                         profit |-> current_value - position.size], TRUE)

\* _close_position with self.balance += profit in place of
\* self.balance += current_value (trading_bot.py:1855)
ClosePositionCreditsProfit(L, obj, current_price, reason, t) ==
    LET position == L.heap[obj]
        current_value == Quot(position.size * current_price,
                              position.entry_price)
    IN  ClosePositionAs(L, obj, current_price, reason, t,
                        [credit |-> current_value - position.size,
                         profit |-> current_value - position.size], TRUE)

\* _close_position without the test of trading_bot.py:1843-1844, with
\* self.positions.pop(position_key, None) in place of the del
ClosePositionUnguarded(L, obj, current_price, reason, t) ==
    LET position == L.heap[obj]
        current_value == Quot(position.size * current_price,
                              position.entry_price)
    IN  ClosePositionAs(L, obj, current_price, reason, t,
                        [credit |-> current_value,
                         profit |-> current_value - position.size], FALSE)

\* _close_position without self.balance += current_value
\* (trading_bot.py:1855)
ClosePositionNoCredit(L, obj, current_price, reason, t) ==
    LET position == L.heap[obj]
        current_value == Quot(position.size * current_price,
                              position.entry_price)
    IN  ClosePositionAs(L, obj, current_price, reason, t,
                        [credit |-> 0,
                         profit |-> current_value - position.size], TRUE)

\* _close_position(position, current_price, title, reason) at time t, where
\* obj is the identity of the TradingPosition object passed in
ClosePosition(L, obj, current_price, reason, t) ==
    LET position == L.heap[obj]
        key == PositionKey(position.market_id, position.outcome)
        current_value == Quot(position.size * current_price, position.entry_price)
        profit == current_value - position.size
        credited == [L EXCEPT !.balance = L.balance + current_value]
        sampled == UpdatePnlHistory(credited, t)
        trade ==
            [market_id |-> position.market_id, timestamp |-> t,
             action |-> "SELL", outcome |-> position.outcome,
             price |-> current_price, size |-> position.size, reason |-> reason,
             profit |-> profit, strategy |-> position.strategy,
             trade_type |-> position.trade_type]
    IN  IF ~HasKey(L.positions, key) THEN L
        ELSE [sampled EXCEPT
                 !.trades = <<trade>> \o sampled.trades,
                 !.positions = DictDel(sampled.positions, key),
                 !.realized = sampled.realized + profit]

\* the body of the loop of _update_positions for one snapshot entry whose
\* market was found and whose prices were extracted (trading_bot.py:1043-1057)
RefreshPosition(L, entry, prices) ==
    LET position == L.heap[entry.obj]
        current_price == IF position.outcome = "Yes" THEN prices[1] ELSE prices[2]
        current_value == Quot(position.size * current_price, position.entry_price)
        updated == [position EXCEPT
                       !.current_price = current_price,
                       !.unrealized_pnl = current_value - position.size]
    IN  [L EXCEPT
            !.heap = [L.heap EXCEPT ![entry.obj] = updated],
            !.positions = DictPut(L.positions, entry.key, entry.obj)]

(***************************************************************************)
(* ExitPolicyEngine: the rules of _check_exit_conditions                    *)
(***************************************************************************)
\* profit_pct > permille / 1000, profit_pct = (current - entry) / entry
ProfitAbove(current_price, entry_price, permille) ==
    (current_price - entry_price) * 1000 > permille * entry_price

\* profit_pct < -permille / 1000
ProfitBelow(current_price, entry_price, permille) ==
    (current_price - entry_price) * 1000 < -(permille * entry_price)

\* (datetime.now() - position.entry_time).total_seconds() > 7200
ScalpTimeout == 7200

\* the strategy-specific rule (trading_bot.py:1709-1775); "" when none fires
StrategyExit(position, cp, analysis, t) ==
    LET ep == position.entry_price IN
    IF position.trade_type = "scalp"
    THEN IF ProfitAbove(cp, ep, 20) THEN "Scalp profit target: +2%"
         ELSE IF ProfitBelow(cp, ep, 8) THEN "Scalp stop loss: -0.8%"
         ELSE IF t - position.entry_time > ScalpTimeout THEN "Scalp timeout: 2 hours"
         ELSE ""
    ELSE IF position.strategy = "arbitrage"
    THEN IF analysis.price_yes + analysis.price_no >= 990
         THEN "Arbitrage closed: Market corrected"
         ELSE IF ProfitAbove(cp, ep, 30)
         THEN "Take profit: Arbitrage profit target met"
         ELSE ""
    ELSE IF position.strategy = "context_swing"
    THEN IF ProfitAbove(cp, ep, 100) THEN "Context swing profit: +10%"
         ELSE IF ProfitBelow(cp, ep, 60) THEN "Context swing stop: -6%"
         ELSE ""
    ELSE IF position.strategy = "momentum"
    THEN IF ProfitAbove(cp, ep, 80) THEN "Take profit: Momentum target reached"
         ELSE IF ProfitBelow(cp, ep, 40) THEN "Stop loss: Momentum reversed"
         ELSE ""
    ELSE IF position.strategy = "mean_reversion"
    THEN IF Abs(analysis.price_yes - 500) * 10 < Abs(ep - 500) * 7
         THEN "Mean reversion: Price moved toward equilibrium"
         ELSE IF ProfitAbove(cp, ep, 100)
         THEN "Take profit: Mean reversion target met"
         ELSE IF ProfitBelow(cp, ep, 50) THEN "Stop loss: Mean reversion failed"
         ELSE ""
    ELSE IF position.strategy = "volume_breakout"
    THEN IF ProfitAbove(cp, ep, 70) THEN "Take profit: Breakout target reached"
         ELSE IF ProfitBelow(cp, ep, 30) THEN "Stop loss: Breakout failed"
         ELSE ""
    ELSE ""

\* the default rule tested before the rules of the trade type and strategy
ExitReasonDefaultFirst(position, cp, analysis, t) ==
    IF ProfitAbove(cp, position.entry_price, 120)
    THEN "Take profit: Strong profit target"
    ELSE IF ProfitBelow(cp, position.entry_price, 60)
    THEN "Stop loss: Risk limit reached"
    ELSE StrategyExit(position, cp, analysis, t)

\* exit_reason after the default rule (trading_bot.py:1777-1784); "" means
\* should_exit is False
ExitReason(position, cp, analysis, t) ==
    IF StrategyExit(position, cp, analysis, t) # ""
    THEN StrategyExit(position, cp, analysis, t)
    ELSE IF ProfitAbove(cp, position.entry_price, 120)
    THEN "Take profit: Strong profit target"
    ELSE IF ProfitBelow(cp, position.entry_price, 60)
    THEN "Stop loss: Risk limit reached"
    ELSE ""

(***************************************************************************)
(* Position sizing and the admissible price band                           *)
(***************************************************************************)
\* 0.02 / 0.015 / 0.01 of the balance by |score| (in thousandths)
PositionPct(score) ==
    IF Abs(score) > 20000 THEN 20 ELSE IF Abs(score) > 10000 THEN 15 ELSE 10

\* max(0.10, min(balance * pct, balance * 0.02))
PositionSize(bal, score) ==
    Max(10, Min(Quot(bal * PositionPct(score), 1000), Quot(bal * 20, 1000)))

\* price < 0.10 or price > 0.99
OutsideBand(price) == price # NAN /\ (price < 100 \/ price > 990)

\* max_profit_per_share = 1.0 - price if outcome is Yes else price
MaxProfitPerShare(outcome, price) ==
    IF outcome = "Yes" THEN OneMinus(price) ELSE price

\* max_profit_per_share <= 0
NoProfit(outcome, price) ==
    MaxProfitPerShare(outcome, price) # NAN
    /\ MaxProfitPerShare(outcome, price) <= 0

(***************************************************************************)
(* The market data source (external): what a fetch answers                 *)
(***************************************************************************)
Markets == {"m1"}

\* the order in which a batch lists the markets
MarketOrder == <<"m1">>

NoMarket == [id |-> ""]

\* a record of the data source; volume and liquidity 0 is the CLOB form the
\* loops admit explicitly (trading_bot.py:949, 1104)
MarketRecord(id, tokens, clob_tokens, lastPrice) ==
    [id |-> id, tokens |-> tokens, condition_id |-> TRUE,
     clob_tokens |-> clob_tokens, outcomes |-> <<>>, newestPrice |-> NONE,
     price |-> NONE, lastPrice |-> lastPrice, currentPrice |-> NONE,
     yesPrice |-> NONE, volume |-> 0, liquidity |-> 0, volume24h |-> NONE]

YesNo(py, pn) ==
    <<[outcome |-> "YES", price |-> py], [outcome |-> "NO", price |-> pn]>>

\* the records the source may hold for market id: prices in its own tokens
\* array; prices only through the CLOB call; no price at all; a last price
\* quoted in cents
RecordsOf(id) ==
    {MarketRecord(id, YesNo(600, 400), YesNo(600, 400), NONE),
     MarketRecord(id, <<>>, YesNo(600, 400), NONE),
     MarketRecord(id, <<>>, YesNo(700, 300), NONE),
     MarketRecord(id, <<>>, <<>>, NONE),
     MarketRecord(id, <<>>, <<>>, 55000)}

\* the states of the source: each market is listed with one of its records,
\* or not listed
Feeds == {f \in [Markets -> UNION {RecordsOf(m) : m \in Markets} \cup {NoMarket}] :
             \A m \in Markets : f[m] = NoMarket \/ f[m].id = m}

\* await polymarket_client.get_markets(...)
Batch(f) ==
    LET listed == SelectSeq(MarketOrder, LAMBDA m : f[m] # NoMarket)
    IN  [i \in 1..Len(listed) |-> f[listed[i]]]

\* what clob_client.get_market(condition_id) answers now
ClobAnswer(id) == IF feed[id] = NoMarket THEN <<>> ELSE feed[id].clob_tokens

\* next((m for m in markets if m.get('id') == market_id), None)
FindMarket(markets, id) ==
    IF \E i \in 1..Len(markets) : markets[i].id = id
    THEN markets[CHOOSE i \in 1..Len(markets) :
                    /\ markets[i].id = id
                    /\ \A j \in 1..(i - 1) : markets[j].id # id]
    ELSE NoMarket

(***************************************************************************)
(* Scheduler: the three loops as asyncio tasks                             *)
(***************************************************************************)
Loops == {"trade", "refresh", "scalp"}

NoTask == "none"

\* bounds of the exploration: cycles each loop may run past its fetch
\* (counted in the `cycles` field of its locals, which a restart keeps),
\* positions ever opened, events of the environment (a change of the source,
\* a call that fails), stop() calls since the last start()
MaxTradeCycles == 2

MaxRefreshCycles == 1

MaxScalpCycles == 1

MaxOpens == 8

MaxTicks == 1

MaxStops == 2

\* seconds the clock may advance in one change of the environment
TimeSteps == {3, 7201}

NoOp == [op |-> "none"]

TradeIdle ==
    [pc |-> "idle", markets |-> <<>>, i |-> 0, snap |-> <<>>, opps |-> <<>>,
     wait |-> FALSE, cycle_count |-> 0, cycles |-> 0]

RefreshIdle ==
    [pc |-> "idle", ids |-> <<>>, markets |-> <<>>, i |-> 0, snap |-> <<>>,
     wait |-> FALSE, cycles |-> 0]

ScalpIdle ==
    [pc |-> "idle", markets |-> <<>>, i |-> 0, opps |-> <<>>, wait |-> FALSE,
     size |-> 0, cycles |-> 0]

\* TradingBot.__init__ (trading_bot.py:77-88): no task exists yet
Init ==
    /\ balance = InitialBalance
    /\ positions = <<>>
    /\ heap = <<>>
    /\ trades = <<>>
    /\ market_analyses = [m \in Markets |-> NoAnalysis]
    /\ price_history = [m \in Markets |-> <<>>]
    /\ pnl_history = <<>>
    /\ is_running = TRUE
    /\ task = [l \in Loops |-> "none"]
    /\ cur = NoTask
    /\ now = 0
    /\ feed \in Feeds
    /\ ticks = 0
    /\ stops = 0
    /\ tl = TradeIdle
    /\ pl = RefreshIdle
    /\ sl = ScalpIdle
    /\ realized = 0
    /\ last = NoOp
    /\ px_market = NoMarket
    /\ has_clob \in BOOLEAN
    /\ px_result = PxPending

\* start(polymarket_client) (trading_bot.py:135-146)
Start ==
    /\ cur = NoTask
    /\ task["trade"] \in {"none", "done"}
    /\ is_running' = TRUE
    /\ task' = [l \in Loops |-> "live"]
    /\ tl' = [TradeIdle EXCEPT !.cycles = tl.cycles]
    /\ pl' = [RefreshIdle EXCEPT !.cycles = pl.cycles]
    /\ sl' = [ScalpIdle EXCEPT !.cycles = sl.cycles]
    /\ stops' = 0
    /\ last' = NoOp
    /\ UNCHANGED <<balance, positions, heap, trades, market_analyses,
                   price_history, pnl_history, cur, now, feed, ticks, realized>>
    /\ UNCHANGED pxVars

\* stop() that only clears is_running and cancels no task
StopFlagOnly ==
    /\ cur = NoTask
    /\ stops < MaxStops
    /\ stops' = stops + 1
    /\ is_running' = FALSE
    /\ last' = NoOp
    /\ UNCHANGED <<balance, positions, heap, trades, market_analyses,
                   price_history, pnl_history, task, cur, now, feed, ticks,
                   tl, pl, sl, realized>>
    /\ UNCHANGED pxVars

\* stop() (trading_bot.py:148-156): every task that is not done is cancelled
Stop ==
    /\ cur = NoTask
    /\ stops < MaxStops
    /\ stops' = stops + 1
    /\ is_running' = FALSE
    /\ task' = [l \in Loops |-> IF task[l] = "live" THEN "cancelling" ELSE task[l]]
    /\ last' = NoOp
    /\ UNCHANGED <<balance, positions, heap, trades, market_analyses,
                   price_history, pnl_history, cur, now, feed, ticks, tl, pl,
                   sl, realized>>
    /\ UNCHANGED pxVars

\* stop() cancels the tasks in this order, and the event loop resumes them in
\* the order they were cancelled (trading_bot.py:151-156)
CancelOrder == <<"trade", "refresh", "scalp">>

\* a cancelled task is resumed: CancelledError is raised at the await it is
\* parked on and `except asyncio.CancelledError: break` ends the loop, whose
\* locals are gone with its frame (trading_bot.py:1004-1005, 1068-1069,
\* 1183-1184)
Cancelled ==
    /\ cur = NoTask
    /\ \E i \in 1..Len(CancelOrder) : \E l \in {CancelOrder[i]} :
          /\ task[l] = "cancelling"
          /\ \A j \in 1..(i - 1) : task[CancelOrder[j]] # "cancelling"
          /\ task' = [task EXCEPT ![l] = "done"]
          /\ tl' = IF l = "trade"
                   THEN [TradeIdle EXCEPT !.pc = "done", !.cycles = tl.cycles]
                   ELSE tl
          /\ pl' = IF l = "refresh"
                   THEN [RefreshIdle EXCEPT !.pc = "done", !.cycles = pl.cycles]
                   ELSE pl
          /\ sl' = IF l = "scalp"
                   THEN [ScalpIdle EXCEPT !.pc = "done", !.cycles = sl.cycles]
                   ELSE sl
    /\ last' = NoOp
    /\ UNCHANGED <<balance, positions, heap, trades, market_analyses,
                   price_history, pnl_history, is_running, cur, now, feed,
                   ticks, stops, realized>>
    /\ UNCHANGED pxVars

\* the environment moves while every task is parked: time passes and the data
\* source changes
Tick ==
    /\ cur = NoTask
    /\ ticks < MaxTicks
    /\ ticks' = ticks + 1
    /\ \E dt \in TimeSteps : now' = now + dt
    /\ feed' \in Feeds
    /\ last' = NoOp
    /\ UNCHANGED <<balance, positions, heap, trades, market_analyses,
                   price_history, pnl_history, is_running, task, cur, stops,
                   tl, pl, sl, realized>>
    /\ UNCHANGED pxVars

\* task l may take its next step: it holds the event loop, or it is parked
\* and the event loop is free
Resumes(l, loc) ==
    /\ task[l] = "live"
    /\ IF loc.pc = "idle" \/ loc.pc = "fetch" \/ loc.wait THEN cur = NoTask ELSE cur = l

\* _get_outcome_prices(market) is about to suspend on the CLOB call: the call
\* is due and the coroutine is not already parked on it
Suspends(loc, market) == NeedsClob(market, has_clob) /\ ~loc.wait

\* what _get_outcome_prices(market) returns when it completes now
PricesNow(market) == GetOutcomePrices(market, has_clob, ClobAnswer(market.id))

\* what a step of loop l leaves alone outside the ledger and its own locals
LoopFrame(l) ==
    /\ UNCHANGED <<is_running, task, now, feed, ticks, stops>>
    /\ UNCHANGED pxVars
    /\ IF l = "trade" THEN TRUE ELSE UNCHANGED tl
    /\ IF l = "refresh" THEN TRUE ELSE UNCHANGED pl
    /\ IF l = "scalp" THEN TRUE ELSE UNCHANGED sl

\* the step does not touch the analyses
AnalysesFrame == UNCHANGED <<market_analyses, price_history>>

\* one pass of the body of `for position_key, position in
\* list(self.positions.items())` of _update_positions (trading_bot.py:1034-1057)
\* by loop l with locals loc: the new locals, ledger, event-loop holder and
\* the operation applied
UpdateStep(l, loc) ==
    LET entry == loc.snap[loc.i]
        market == FindMarket(loc.markets, heap[entry.obj].market_id)
        next == [loc EXCEPT !.i = loc.i + 1, !.wait = FALSE]
    IN  IF market = NoMarket
        THEN [loc |-> next, ledger |-> Ledger, cur |-> l, last |-> NoOp]
        ELSE IF Suspends(loc, market)
        THEN [loc |-> [loc EXCEPT !.wait = TRUE], ledger |-> Ledger,
              cur |-> NoTask, last |-> NoOp]
        ELSE IF PricesNow(market) = <<NONE, NONE>>
        THEN [loc |-> next, ledger |-> Ledger, cur |-> l, last |-> NoOp]
        ELSE [loc |-> next,
              ledger |-> RefreshPosition(Ledger, entry, PricesNow(market)),
              cur |-> l,
              last |-> [op |-> "refresh", by |-> l, key |-> entry.key,
                        obj |-> entry.obj,
                        present |-> HasKey(positions, entry.key)]]

(***************************************************************************)
(* OpportunitySelector: _execute_trades without a Claude client            *)
(***************************************************************************)
\* the candidate of one analysed market (trading_bot.py:1433-1455), or <<>>
Candidate(market, analysis) ==
    IF analysis.arbitrage_opportunity # NONE /\ analysis.arbitrage_opportunity # 0
    THEN <<[market |-> market, analysis |-> analysis, strategy |-> "arbitrage",
            priority |-> 100, outcome |-> "both", trade_type |-> ""]>>
    ELSE IF analysis.score > 5000
    THEN <<[market |-> market, analysis |-> analysis,
            strategy |-> "algorithmic_fallback",
            priority |-> analysis.score \div 1000,
            outcome |-> IF analysis.price_yes > 500 THEN "Yes" ELSE "No",
            trade_type |-> "swing"]>>
    ELSE <<>>

RECURSIVE Candidates(_, _)
Candidates(markets, analyses) ==
    IF markets = <<>> THEN <<>>
    ELSE (IF analyses[Head(markets).id] = NoAnalysis THEN <<>>
          ELSE Candidate(Head(markets), analyses[Head(markets).id]))
         \o Candidates(Tail(markets), analyses)

\* place x after every element whose priority is >= its own
RECURSIVE InsertByPriority(_, _)
InsertByPriority(sorted, x) ==
    IF sorted = <<>> THEN <<x>>
    ELSE IF Head(sorted).priority >= x.priority
    THEN <<Head(sorted)>> \o InsertByPriority(Tail(sorted), x)
    ELSE <<x>> \o sorted

\* opportunities.sort(key=priority, reverse=True): stable
RECURSIVE SortByPriority(_)
SortByPriority(q) ==
    IF q = <<>> THEN <<>>
    ELSE InsertByPriority(SortByPriority(SubSeq(q, 1, Len(q) - 1)), q[Len(q)])

\* max_swings_per_cycle
MaxSwingsPerCycle == 6

\* the candidates sorted and tagged swing, all of them
SwingOpportunitiesUncapped(markets, analyses) ==
    SelectSeq(SortByPriority(Candidates(markets, analyses)),
              LAMBDA o : o.trade_type = "swing")

\* the candidates _execute_trades acts on: sorted, those tagged swing, the
\* first six (trading_bot.py:1458-1487)
SwingOpportunities(markets, analyses) ==
    FirstN(SelectSeq(SortByPriority(Candidates(markets, analyses)),
                     LAMBDA o : o.trade_type = "swing"),
           MaxSwingsPerCycle)

\* the arbitrage branch of _execute_opportunity (trading_bot.py:1519-1562)
ExecuteArbitrage(L, opp, t) ==
    LET a == opp.analysis
        py == a.price_yes
        pn == a.price_no
        total_cost == py + pn
        pct == IF a.arbitrage_opportunity # NONE /\ a.arbitrage_opportunity > 2000
               THEN 20 ELSE 10
        investment == Max(10, Min(Quot(L.balance * pct, 1000),
                                   Quot(L.balance * 20, 1000)))
        cost_yes == Quot(investment * py, total_cost)
        cost_no == Quot(investment * pn, total_cost)
        L1 == IF cost_yes <= L.balance /\ cost_yes >= 10
                 /\ ~HasKey(L.positions, PositionKey(a.market_id, "Yes"))
              THEN OpenPosition(L, a.market_id, "Yes", py, cost_yes,
                                opp.strategy, "Arbitrage: Buy Yes", "swing", t)
              ELSE L
        L2 == IF cost_no <= L1.balance /\ cost_no >= 10
                 /\ ~HasKey(L1.positions, PositionKey(a.market_id, "No"))
              THEN OpenPosition(L1, a.market_id, "No", pn, cost_no,
                                opp.strategy, "Arbitrage: Buy No", "swing", t)
              ELSE L1
    IN  IF L.balance < 100 \/ OutsideBand(py) \/ OutsideBand(pn)
           \/ total_cost >= 990
        THEN L
        ELSE L2

\* the price the directional branch of _execute_opportunity trades at
\* (trading_bot.py:1569-1619): the fresh price, else the price stored in the
\* analysis; NONE when both are outside the band
DirectionalPrice(opp, prices) ==
    LET a == opp.analysis
        py == IF prices = <<NONE, NONE>> THEN a.price_yes ELSE prices[1]
        pn == IF prices = <<NONE, NONE>> THEN a.price_no ELSE prices[2]
        fresh == IF opp.outcome = "Yes" THEN py ELSE pn
        stored == IF opp.outcome = "Yes" THEN a.price_yes ELSE a.price_no
    IN  IF ~OutsideBand(fresh) THEN fresh
        ELSE IF ~OutsideBand(stored) THEN stored
        ELSE NONE

\* the directional branch of _execute_opportunity after its await
\* (trading_bot.py:1564-1678): the ledger and the operation applied
ExecuteDirectional(L, opp, prices, t) ==
    LET a == opp.analysis
        price == DirectionalPrice(opp, prices)
        key == PositionKey(a.market_id, opp.outcome)
        size == PositionSize(L.balance, a.score)
    IN  IF price = NONE \/ HasKey(L.positions, key)
           \/ NoProfit(opp.outcome, price)
           \/ ~(size <= L.balance /\ size >= 10)
        THEN [ledger |-> L, last |-> NoOp]
        ELSE [ledger |-> OpenPosition(L, a.market_id, opp.outcome, price, size,
                                      opp.strategy, opp.strategy,
                                      opp.trade_type, t),
              last |-> [op |-> "open", by |-> "trade", key |-> key,
                        existed |-> HasKey(L.positions, key),
                        applied |-> size <= L.balance,
                        price |-> price, size |-> size,
                        fresh |-> prices]]

\* _execute_opportunity(opp), once its await has completed with prices
ExecuteOpportunity(L, opp, prices, t) ==
    IF opp.strategy = "arbitrage" /\ opp.outcome = "both"
    THEN [ledger |-> ExecuteArbitrage(L, opp, t), last |-> NoOp]
    ELSE ExecuteDirectional(L, opp, prices, t)

\* one pass of the body of the loop of _check_exit_conditions, once its await
\* has completed with prices (trading_bot.py:1698-1787)
ExitStep(L, entry, prices, analysis, t) ==
    LET position == L.heap[entry.obj]
        cp == IF position.outcome = "Yes" THEN prices[1] ELSE prices[2]
        reason == ExitReason(position, cp, analysis, t)
        key == PositionKey(position.market_id, position.outcome)
    IN  IF reason = "" THEN [ledger |-> L, last |-> NoOp]
        ELSE [ledger |-> ClosePosition(L, entry.obj, cp, reason, t),
              last |-> [op |-> "close", by |-> "trade", key |-> key,
                        obj |-> entry.obj,
                        stored |-> IF HasKey(L.positions, key)
                                   THEN ObjOf(L.positions, key) ELSE 0,
                        applied |-> HasKey(L.positions, key),
                        price |-> cp, reason |-> reason]]

\* len(self.market_analyses) > 200 keeps the analyses of the fetched markets
AnalysesCap == 200

\* len(self.trades) > 500 keeps self.trades[-500:]
TradesCap == 500

\* _cleanup_old_data keeps self.trades[:1000]
CleanupTradesCap == 1000

\* cycle_count % 20 == 0 runs _cleanup_old_data
CleanupEvery == 20

\* the analyses after the cleanup at the end of a cycle (trading_bot.py:984-991)
TrimAnalyses(analyses, markets) ==
    IF Cardinality({m \in DOMAIN analyses : analyses[m] # NoAnalysis}) > AnalysesCap
    THEN [m \in DOMAIN analyses |->
             IF FindMarket(markets, m) # NoMarket THEN analyses[m] ELSE NoAnalysis]
    ELSE analyses

\* the trade list after the cleanups at the end of a cycle
\* (trading_bot.py:994-999, 1919-1921)
TrimTrades(ts, cycle_count) ==
    LET kept == IF cycle_count % CleanupEvery = 0 /\ Len(ts) > CleanupTradesCap
                THEN FirstN(ts, CleanupTradesCap) ELSE ts
    IN  IF Len(kept) > TradesCap THEN LastN(kept, TradesCap) ELSE kept

\* include a market in the analysis pass (trading_bot.py:949)
PassesTradeFilter(market) ==
    market.volume > 100 \/ market.liquidity > 200
    \/ (market.volume = 0 /\ market.liquidity = 0)

(***************************************************************************)
(* _trading_loop (trading_bot.py:843-1010)                                 *)
(* The sleep that ends a cycle and the fetch that begins the next are one  *)
(* parked state, "idle": nothing is read or written between them.          *)
(***************************************************************************)
\* the loop wakes, tests is_running, fetches the batch and starts analysing;
\* an empty batch sends it back to sleep (trading_bot.py:851-891)
TradeCycle ==
    /\ tl.pc = "idle"
    /\ Resumes("trade", tl)
    /\ tl.cycles < MaxTradeCycles
    /\ IF ~is_running
       THEN /\ tl' = [tl EXCEPT !.pc = "done"]
            /\ task' = [task EXCEPT !["trade"] = "done"]
            /\ cur' = NoTask
       ELSE /\ task' = task
            /\ IF Batch(feed) = <<>>
               THEN /\ tl' = [tl EXCEPT !.cycle_count = tl.cycle_count + 1,
                                        !.cycles = tl.cycles + 1]
                    /\ cur' = NoTask
               ELSE /\ tl' = [tl EXCEPT !.cycle_count = tl.cycle_count + 1,
                                        !.cycles = tl.cycles + 1,
                                        !.pc = "analyze", !.markets = Batch(feed),
                                        !.i = 1]
                    /\ cur' = "trade"
    /\ last' = NoOp
    /\ UNCHANGED <<balance, positions, heap, trades, pnl_history, realized>>
    /\ AnalysesFrame
    /\ UNCHANGED <<is_running, now, feed, ticks, stops, pl, sl>>
    /\ UNCHANGED pxVars

\* a failure of the trade loop's cycle that no handler catches: the exception
\* leaves the coroutine and the task is done
TradeFailsUncaught ==
    /\ tl.pc = "idle"
    /\ Resumes("trade", tl)
    /\ is_running
    /\ tl.cycles < MaxTradeCycles
    /\ ticks < MaxTicks
    /\ ticks' = ticks + 1
    /\ tl' = [TradeIdle EXCEPT !.pc = "done", !.cycles = tl.cycles]
    /\ task' = [task EXCEPT !["trade"] = "done"]
    /\ cur' = NoTask
    /\ last' = [op |-> "fail", by |-> "trade"]
    /\ UNCHANGED <<balance, positions, heap, trades, pnl_history, realized>>
    /\ AnalysesFrame
    /\ UNCHANGED <<is_running, now, feed, stops, pl, sl>>
    /\ UNCHANGED pxVars

\* a cycle of the trade loop fails: the fetch raises (such as the TypeError of
\* get_markets(..., use_clob=False) on a client without that parameter),
\* `except Exception` catches it and the loop sleeps 10 s before its next
\* test of is_running (trading_bot.py:851-885, 1006-1010)
TradeFails ==
    /\ tl.pc = "idle"
    /\ Resumes("trade", tl)
    /\ is_running
    /\ tl.cycles < MaxTradeCycles
    /\ ticks < MaxTicks
    /\ ticks' = ticks + 1
    /\ tl' = [tl EXCEPT !.cycle_count = tl.cycle_count + 1]
    /\ cur' = NoTask
    /\ last' = [op |-> "fail", by |-> "trade"]
    /\ UNCHANGED <<balance, positions, heap, trades, pnl_history, realized>>
    /\ AnalysesFrame
    /\ UNCHANGED <<is_running, task, now, feed, stops, pl, sl>>
    /\ UNCHANGED pxVars

\* one market of `for market in markets`: analyze_market and the store of
\* its result (trading_bot.py:901-966)
TradeAnalyze ==
    /\ tl.pc = "analyze"
    /\ tl.i <= Len(tl.markets)
    /\ Resumes("trade", tl)
    /\ LET market == tl.markets[tl.i]
       IN  IF ~PassesTradeFilter(market)
           THEN /\ tl' = [tl EXCEPT !.i = tl.i + 1]
                /\ cur' = "trade"
                /\ AnalysesFrame
           ELSE IF Suspends(tl, market)
           THEN /\ tl' = [tl EXCEPT !.wait = TRUE]
                /\ cur' = NoTask
                /\ AnalysesFrame
           ELSE \E r \in {AnalyzeMarket(market, PricesNow(market),
                                        price_history[market.id])} :
                /\ tl' = [tl EXCEPT !.i = tl.i + 1, !.wait = FALSE]
                /\ cur' = "trade"
                /\ price_history' = [price_history EXCEPT ![market.id] = r.history]
                /\ market_analyses' =
                      IF r.raised THEN market_analyses
                      ELSE [market_analyses EXCEPT ![market.id] = r.analysis]
    /\ last' = NoOp
    /\ UNCHANGED <<balance, positions, heap, trades, pnl_history, realized>>
    /\ LoopFrame("trade")

\* one position of _update_positions(markets, client) (trading_bot.py:973)
TradeUpdate ==
    /\ tl.pc = "update"
    /\ tl.i <= Len(tl.snap)
    /\ Resumes("trade", tl)
    /\ \E r \in {UpdateStep("trade", tl)} :
           /\ tl' = r.loc
           /\ SetLedger(r.ledger)
           /\ cur' = r.cur
           /\ last' = r.last
    /\ AnalysesFrame
    /\ LoopFrame("trade")

\* one candidate of `for i, opp in enumerate(swing_opportunities[:6])`
\* (trading_bot.py:1487-1498)
TradeExecute ==
    /\ tl.pc = "execute"
    /\ tl.i <= Len(tl.opps)
    /\ Resumes("trade", tl)
    /\ LET opp == tl.opps[tl.i]
           directional == ~(opp.strategy = "arbitrage" /\ opp.outcome = "both")
       IN  IF directional /\ Suspends(tl, opp.market)
           THEN /\ tl' = [tl EXCEPT !.wait = TRUE]
                /\ cur' = NoTask
                /\ last' = NoOp
                /\ UNCHANGED <<balance, positions, heap, trades, pnl_history,
                               realized>>
           ELSE \E r \in {ExecuteOpportunity(Ledger, opp, PricesNow(opp.market),
                                             now)} :
                /\ Len(r.ledger.heap) <= MaxOpens
                /\ tl' = [tl EXCEPT !.i = tl.i + 1, !.wait = FALSE]
                /\ cur' = "trade"
                /\ last' = r.last
                /\ SetLedger(r.ledger)
    /\ AnalysesFrame
    /\ LoopFrame("trade")

\* one position of _check_exit_conditions(markets) (trading_bot.py:1682-1787)
TradeExit ==
    /\ tl.pc = "exit"
    /\ tl.i <= Len(tl.snap)
    /\ Resumes("trade", tl)
    /\ LET entry == tl.snap[tl.i]
           position == heap[entry.obj]
           market == FindMarket(tl.markets, position.market_id)
           analysis == market_analyses[position.market_id]
           skip == /\ tl' = [tl EXCEPT !.i = tl.i + 1, !.wait = FALSE]
                   /\ cur' = "trade"
                   /\ last' = NoOp
                   /\ UNCHANGED <<balance, positions, heap, trades, pnl_history,
                                  realized>>
       IN  IF market = NoMarket \/ analysis = NoAnalysis
           THEN skip
           ELSE IF Suspends(tl, market)
           THEN /\ tl' = [tl EXCEPT !.wait = TRUE]
                /\ cur' = NoTask
                /\ last' = NoOp
                /\ UNCHANGED <<balance, positions, heap, trades, pnl_history,
                               realized>>
           ELSE IF PricesNow(market) = <<NONE, NONE>>
           THEN skip
           ELSE \E r \in {ExitStep(Ledger, entry, PricesNow(market), analysis,
                                   now)} :
                /\ tl' = [tl EXCEPT !.i = tl.i + 1, !.wait = FALSE]
                /\ cur' = "trade"
                /\ last' = r.last
                /\ SetLedger(r.ledger)
    /\ AnalysesFrame
    /\ LoopFrame("trade")

\* a phase of the cycle has run through its list: the cycle goes on to the
\* next phase, and after the exit check to the cleanups and the sleep
\* (trading_bot.py:968-1002, 1337-1505)
TradeAdvance ==
    /\ cur = "trade"
    /\ task["trade"] = "live"
    /\ ~tl.wait
    /\ \/ /\ tl.pc = "analyze"
          /\ tl.i > Len(tl.markets)
          /\ tl' = [tl EXCEPT !.pc = "update", !.i = 1, !.snap = positions]
          /\ cur' = "trade"
          /\ UNCHANGED <<market_analyses, trades>>
       \/ /\ tl.pc = "update"
          /\ tl.i > Len(tl.snap)
          /\ tl' = [tl EXCEPT !.pc = "execute", !.i = 1, !.snap = <<>>,
                              !.opps = SwingOpportunities(tl.markets,
                                                          market_analyses)]
          /\ cur' = "trade"
          /\ UNCHANGED <<market_analyses, trades>>
       \/ /\ tl.pc = "execute"
          /\ tl.i > Len(tl.opps)
          /\ tl' = [tl EXCEPT !.pc = "exit", !.i = 1, !.opps = <<>>,
                              !.snap = positions]
          /\ cur' = "trade"
          /\ UNCHANGED <<market_analyses, trades>>
       \/ /\ tl.pc = "exit"
          /\ tl.i > Len(tl.snap)
          /\ tl' = [tl EXCEPT !.pc = "idle", !.i = 0, !.snap = <<>>,
                              !.markets = <<>>]
          /\ cur' = NoTask
          /\ market_analyses' = TrimAnalyses(market_analyses, tl.markets)
          /\ trades' = TrimTrades(trades, tl.cycle_count)
    /\ last' = NoOp
    /\ UNCHANGED <<balance, positions, heap, pnl_history, realized,
                   price_history>>
    /\ LoopFrame("trade")

(***************************************************************************)
(* _position_update_loop (trading_bot.py:1059-1072)                        *)
(***************************************************************************)
\* [p.market_id for p in self.positions.values()]
MarketIds(d, h) == [i \in 1..Len(d) |-> h[d[i].obj].market_id]

\* the loop wakes with positions open: _update_positions(polymarket_client=
\* client) lists their market ids and awaits the first get_market_by_id
\* (trading_bot.py:1061-1064, 1014-1024)
RefreshCycle ==
    /\ pl.pc = "idle"
    /\ Resumes("refresh", pl)
    /\ pl.cycles < MaxRefreshCycles
    /\ positions # <<>>
    /\ IF ~is_running
       THEN /\ pl' = [pl EXCEPT !.pc = "done"]
            /\ task' = [task EXCEPT !["refresh"] = "done"]
       ELSE /\ task' = task
            /\ pl' = [pl EXCEPT !.cycles = pl.cycles + 1, !.pc = "fetch",
                                !.ids = MarketIds(positions, heap),
                                !.markets = <<>>, !.i = 1]
    /\ cur' = NoTask
    /\ last' = NoOp
    /\ UNCHANGED <<balance, positions, heap, trades, pnl_history, realized>>
    /\ AnalysesFrame
    /\ UNCHANGED <<is_running, now, feed, ticks, stops, tl, sl>>
    /\ UNCHANGED pxVars

\* get_market_by_id answers for one id; after the last id the snapshot of
\* self.positions is taken, or, with no market fetched, _update_positions
\* returns and the P&L history is sampled (trading_bot.py:1023-1034, 1066)
RefreshFetch ==
    /\ pl.pc = "fetch"
    /\ Resumes("refresh", pl)
    /\ LET got == feed[pl.ids[pl.i]]
           markets == IF got = NoMarket THEN pl.markets ELSE Append(pl.markets, got)
       IN  IF pl.i < Len(pl.ids)
           THEN /\ pl' = [pl EXCEPT !.markets = markets, !.i = pl.i + 1]
                /\ cur' = NoTask
                /\ pnl_history' = pnl_history
           ELSE IF markets = <<>>
           THEN /\ pl' = [pl EXCEPT !.pc = "idle", !.ids = <<>>, !.i = 0]
                /\ cur' = NoTask
                /\ pnl_history' = UpdatePnlHistory(Ledger, now).pnl_history
           ELSE /\ pl' = [pl EXCEPT !.pc = "update", !.markets = markets,
                                    !.ids = <<>>, !.i = 1, !.snap = positions]
                /\ cur' = "refresh"
                /\ pnl_history' = pnl_history
    /\ last' = NoOp
    /\ UNCHANGED <<balance, positions, heap, trades, realized>>
    /\ AnalysesFrame
    /\ LoopFrame("refresh")

\* a cycle of the refresh loop fails: get_market_by_id answers with a value
\* that is not a dict, m.get('id') raises in the scan of the markets,
\* `except Exception` catches it and the loop sleeps 5 s; the P&L history is
\* not sampled (trading_bot.py:1023-1034, 1070-1072).  The failed cycle is
\* not counted in `cycles`.
RefreshFails ==
    /\ pl.pc = "fetch"
    /\ Resumes("refresh", pl)
    /\ ticks < MaxTicks
    /\ ticks' = ticks + 1
    /\ pl' = [pl EXCEPT !.pc = "idle", !.ids = <<>>, !.markets = <<>>,
                        !.i = 0, !.cycles = pl.cycles - 1]
    /\ cur' = NoTask
    /\ last' = [op |-> "fail", by |-> "refresh"]
    /\ UNCHANGED <<balance, positions, heap, trades, pnl_history, realized>>
    /\ AnalysesFrame
    /\ UNCHANGED <<is_running, task, now, feed, stops, tl, sl>>
    /\ UNCHANGED pxVars

\* one position of the loop of _update_positions
RefreshUpdate ==
    /\ pl.pc = "update"
    /\ pl.i <= Len(pl.snap)
    /\ Resumes("refresh", pl)
    /\ \E r \in {UpdateStep("refresh", pl)} :
           /\ pl' = r.loc
           /\ SetLedger(r.ledger)
           /\ cur' = r.cur
           /\ last' = r.last
    /\ AnalysesFrame
    /\ LoopFrame("refresh")

\* _update_positions has returned: self._update_pnl_history(), then the sleep
\* (trading_bot.py:1066-1067)
RefreshAdvance ==
    /\ pl.pc = "update"
    /\ pl.i > Len(pl.snap)
    /\ cur = "refresh"
    /\ task["refresh"] = "live"
    /\ ~pl.wait
    /\ pl' = [pl EXCEPT !.pc = "idle", !.i = 0, !.snap = <<>>, !.markets = <<>>]
    /\ cur' = NoTask
    /\ pnl_history' = UpdatePnlHistory(Ledger, now).pnl_history
    /\ last' = NoOp
    /\ UNCHANGED <<balance, positions, heap, trades, realized>>
    /\ AnalysesFrame
    /\ LoopFrame("refresh")

(***************************************************************************)
(* _scalping_loop (trading_bot.py:1074-1187)                               *)
(***************************************************************************)
\* markets[:50]
ScalpScanCap == 50

\* min(5, len(scalp_opportunities))
MaxScalps == 5

\* skip a market of the scan (trading_bot.py:1104)
FailsScalpFilter(market) ==
    (market.volume > 0 /\ market.volume < 500)
    \/ (market.liquidity > 0 /\ market.liquidity < 300)

\* the loop wakes, fetches the batch and starts scanning (trading_bot.py:
\* 1078-1088)
ScalpCycle ==
    /\ sl.pc = "idle"
    /\ Resumes("scalp", sl)
    /\ sl.cycles < MaxScalpCycles
    /\ IF ~is_running
       THEN /\ sl' = [sl EXCEPT !.pc = "done"]
            /\ task' = [task EXCEPT !["scalp"] = "done"]
            /\ cur' = NoTask
       ELSE /\ task' = task
            /\ IF Batch(feed) = <<>>
               THEN /\ sl' = [sl EXCEPT !.cycles = sl.cycles + 1]
                    /\ cur' = NoTask
               ELSE /\ sl' = [sl EXCEPT !.cycles = sl.cycles + 1, !.pc = "scan",
                                        !.markets = FirstN(Batch(feed), ScalpScanCap),
                                        !.i = 1, !.opps = <<>>]
                    /\ cur' = "scalp"
    /\ last' = NoOp
    /\ UNCHANGED <<balance, positions, heap, trades, pnl_history, realized>>
    /\ AnalysesFrame
    /\ UNCHANGED <<is_running, now, feed, ticks, stops, tl, pl>>
    /\ UNCHANGED pxVars

\* a cycle of the scalp loop fails: the fetch raises, `except Exception`
\* catches it and the loop sleeps 3 s (trading_bot.py:1078-1081, 1185-1187)
ScalpFails ==
    /\ sl.pc = "idle"
    /\ Resumes("scalp", sl)
    /\ is_running
    /\ sl.cycles < MaxScalpCycles
    /\ ticks < MaxTicks
    /\ ticks' = ticks + 1
    /\ sl' = sl
    /\ cur' = NoTask
    /\ last' = [op |-> "fail", by |-> "scalp"]
    /\ UNCHANGED <<balance, positions, heap, trades, pnl_history, realized>>
    /\ AnalysesFrame
    /\ UNCHANGED <<is_running, task, now, feed, stops, tl, pl>>
    /\ UNCHANGED pxVars

\* the candidate with the direction taken from the momentum of the analysis
ScalpCandidateByMomentum(market, analysis, d) ==
    LET direction == IF analysis.momentum >= 0 THEN "Yes" ELSE "No"
    IN  IF analysis.volume_score > 10000 /\ Abs(analysis.score) > 5000
           /\ ~HasKey(d, PositionKey(analysis.market_id, direction))
        THEN <<[market |-> market, analysis |-> analysis, outcome |-> direction,
                priority |-> analysis.volume_score]>>
        ELSE <<>>

\* the candidate a scanned market yields (trading_bot.py:1112-1125), or <<>>
ScalpCandidate(market, analysis, d) ==
    LET direction == IF analysis.score > 0 THEN "Yes" ELSE "No"
    IN  IF analysis.volume_score > 10000 /\ Abs(analysis.score) > 5000
           /\ ~HasKey(d, PositionKey(analysis.market_id, direction))
        THEN <<[market |-> market, analysis |-> analysis, outcome |-> direction,
                priority |-> analysis.volume_score]>>
        ELSE <<>>

\* one market of `for market in markets[:50]` (trading_bot.py:1090-1127)
ScalpScan ==
    /\ sl.pc = "scan"
    /\ sl.i <= Len(sl.markets)
    /\ Resumes("scalp", sl)
    /\ LET market == sl.markets[sl.i]
       IN  IF FailsScalpFilter(market)
           THEN /\ sl' = [sl EXCEPT !.i = sl.i + 1]
                /\ cur' = "scalp"
                /\ price_history' = price_history
           ELSE IF Suspends(sl, market)
           THEN /\ sl' = [sl EXCEPT !.wait = TRUE]
                /\ cur' = NoTask
                /\ price_history' = price_history
           ELSE \E r \in {AnalyzeMarket(market, PricesNow(market),
                                        price_history[market.id])} :
                /\ sl' = [sl EXCEPT
                             !.i = sl.i + 1, !.wait = FALSE,
                             !.opps = IF r.raised THEN sl.opps
                                      ELSE sl.opps \o ScalpCandidate(market,
                                                                     r.analysis,
                                                                     positions)]
                /\ cur' = "scalp"
                /\ price_history' = [price_history EXCEPT ![market.id] = r.history]
    /\ last' = NoOp
    /\ UNCHANGED <<balance, positions, heap, trades, pnl_history, realized,
                   market_analyses>>
    /\ LoopFrame("scalp")

\* the part of one pass of `for opp in scalp_opportunities[:max_scalps]`
\* after its await (trading_bot.py:1160-1177), with the size computed before
OpenScalp(L, opp, size, prices, t) ==
    LET price == IF opp.outcome = "Yes" THEN prices[1] ELSE prices[2]
        key == PositionKey(opp.analysis.market_id, opp.outcome)
    IN  IF prices = <<NONE, NONE>> \/ OutsideBand(price)
           \/ NoProfit(opp.outcome, price)
        THEN [ledger |-> L, last |-> NoOp]
        ELSE [ledger |-> OpenPosition(L, opp.analysis.market_id, opp.outcome,
                                      price, size, "volume_scalp",
                                      "Volume Scalp", "scalp", t),
              last |-> [op |-> "open", by |-> "scalp", key |-> key,
                        existed |-> HasKey(L.positions, key),
                        applied |-> size <= L.balance,
                        price |-> price, size |-> size, fresh |-> prices]]

\* one candidate of the opening pass (trading_bot.py:1135-1177)
ScalpOpen ==
    /\ sl.pc = "open"
    /\ sl.i <= Len(sl.opps)
    /\ Resumes("scalp", sl)
    /\ LET opp == sl.opps[sl.i]
           size == IF sl.wait THEN sl.size
                   ELSE PositionSize(balance, opp.analysis.score)
           quiet == /\ last' = NoOp
                    /\ UNCHANGED <<balance, positions, heap, trades,
                                   pnl_history, realized>>
       IN  IF ~sl.wait /\ balance < 50
           THEN /\ sl' = [sl EXCEPT !.i = Len(sl.opps) + 1]
                /\ cur' = "scalp"
                /\ quiet
           ELSE IF ~sl.wait /\ size > balance
           THEN /\ sl' = [sl EXCEPT !.i = sl.i + 1]
                /\ cur' = "scalp"
                /\ quiet
           ELSE IF Suspends(sl, opp.market)
           THEN /\ sl' = [sl EXCEPT !.wait = TRUE, !.size = size]
                /\ cur' = NoTask
                /\ quiet
           ELSE \E r \in {OpenScalp(Ledger, opp, size, PricesNow(opp.market),
                                    now)} :
                /\ Len(r.ledger.heap) <= MaxOpens
                /\ sl' = [sl EXCEPT !.i = sl.i + 1, !.wait = FALSE, !.size = 0]
                /\ cur' = "scalp"
                /\ last' = r.last
                /\ SetLedger(r.ledger)
    /\ AnalysesFrame
    /\ LoopFrame("scalp")

\* the scan is over: sort, keep the first five; the opening pass is over:
\* sleep (trading_bot.py:1129-1135, 1179-1181)
ScalpAdvance ==
    /\ cur = "scalp"
    /\ task["scalp"] = "live"
    /\ ~sl.wait
    /\ \/ /\ sl.pc = "scan"
          /\ sl.i > Len(sl.markets)
          /\ sl' = [sl EXCEPT !.pc = "open", !.i = 1,
                              !.opps = FirstN(SortByPriority(sl.opps), MaxScalps)]
          /\ cur' = "scalp"
       \/ /\ sl.pc = "open"
          /\ sl.i > Len(sl.opps)
          /\ sl' = [sl EXCEPT !.pc = "idle", !.i = 0, !.opps = <<>>,
                              !.markets = <<>>]
          /\ cur' = NoTask
    /\ last' = NoOp
    /\ UNCHANGED <<balance, positions, heap, trades, pnl_history, realized>>
    /\ AnalysesFrame
    /\ LoopFrame("scalp")

Next ==
    \/ Start \/ Stop \/ Cancelled \/ Tick
    \/ TradeCycle \/ TradeAnalyze \/ TradeUpdate \/ TradeExecute \/ TradeExit
    \/ TradeAdvance \/ TradeFails
    \/ RefreshCycle \/ RefreshFetch \/ RefreshUpdate \/ RefreshAdvance
    \/ RefreshFails
    \/ ScalpCycle \/ ScalpScan \/ ScalpOpen \/ ScalpAdvance \/ ScalpFails

Spec == Init /\ [][Next]_vars

(***************************************************************************)
(* SpecLive: the loops under the scheduling of the event loop.  A task     *)
(* that can take its next step takes it: a coroutine that holds the event  *)
(* loop runs on, a sleep elapses, a call to the source returns, and a      *)
(* cancelled task is woken with CancelledError.  Nothing obliges the       *)
(* environment to call start() or stop(), to change or to fail.            *)
(* The source starts with prices that only the CLOB call gives, so that    *)
(* every pass of a loop parks on its awaits; it may change afterwards.     *)
(***************************************************************************)
InitLive ==
    /\ Init
    /\ has_clob
    /\ feed = [m \in Markets |-> MarketRecord(m, <<>>, YesNo(600, 400), NONE)]

\* the trade task can take its next step: its sleep or its awaited call can
\* complete while the event loop is free, or it holds the event loop
TradeReady ==
    /\ task["trade"] = "live"
    /\ IF tl.pc = "idle" THEN cur = NoTask /\ tl.cycles < MaxTradeCycles
       ELSE IF tl.wait THEN cur = NoTask
       ELSE cur = "trade"

\* the same of the refresh task, whose cycle with no position open is the
\* sleep alone
RefreshReady ==
    /\ task["refresh"] = "live"
    /\ IF pl.pc = "idle"
       THEN cur = NoTask /\ pl.cycles < MaxRefreshCycles /\ positions # <<>>
       ELSE IF pl.pc = "fetch" \/ pl.wait THEN cur = NoTask
       ELSE cur = "refresh"

\* the same of the scalp task
ScalpReady ==
    /\ task["scalp"] = "live"
    /\ IF sl.pc = "idle" THEN cur = NoTask /\ sl.cycles < MaxScalpCycles
       ELSE IF sl.wait THEN cur = NoTask
       ELSE cur = "scalp"

\* a step of the trade task that is not a failure of its cycle: each such
\* step moves the task's position in its code
TradeRuns == task["trade"] = "live" /\ tl' # tl /\ last'.op # "fail"

RefreshRuns == task["refresh"] = "live" /\ pl' # pl /\ last'.op # "fail"

ScalpRuns == task["scalp"] = "live" /\ sl' # sl /\ last'.op # "fail"

\* weak fairness of the wake-up of a cancelled task and of each task's steps:
\* a task that stays able to step does step
SpecLive ==
    /\ InitLive
    /\ [][Next]_vars
    /\ WF_vars(Cancelled)
    /\ ([]<>(~TradeReady) \/ []<><<TradeRuns>>_vars)
    /\ ([]<>(~RefreshReady) \/ []<><<RefreshRuns>>_vars)
    /\ ([]<>(~ScalpReady) \/ []<><<ScalpRuns>>_vars)

(***************************************************************************)
(* SpecPrice: the extractor applied to one market record                   *)
(***************************************************************************)
\* values a price field of a record may carry: absent, not a number, NaN, 0,
\* a probability, exactly 1, and a number above 1 (a price quoted in cents)
PxValues == {NONE, BAD, NAN, 0, 400, PriceOne, 1500}

PxTokenLists ==
    {<<>>,
     <<[outcome |-> "YES", price |-> 600]>>,
     <<[outcome |-> "YES", price |-> 600], [outcome |-> "NO", price |-> 350]>>,
     <<[outcome |-> "YES", price |-> 1500], [outcome |-> "NO", price |-> BAD]>>}

PxOutcome(isdict, name, price, lastPrice) ==
    [isdict |-> isdict, name |-> name, price |-> price, newestPrice |-> NONE,
     lastPrice |-> lastPrice, currentPrice |-> NONE, yesPrice |-> NONE,
     noPrice |-> NONE]

PxOutcomeLists ==
    {<<>>,
     <<PxOutcome(FALSE, "YES", NONE, NONE), PxOutcome(FALSE, "NO", NONE, NONE)>>,
     <<PxOutcome(TRUE, "YES", 700, NONE), PxOutcome(TRUE, "NO", 1200, 300)>>,
     <<PxOutcome(TRUE, "OTHER", NONE, NONE), PxOutcome(TRUE, "OTHER", BAD, 200)>>,
     <<PxOutcome(TRUE, "NO", 0, NONE), PxOutcome(TRUE, "YES", NONE, NONE)>>}

PxMarkets ==
    [id : {"m1"}, tokens : PxTokenLists, condition_id : BOOLEAN,
     outcomes : PxOutcomeLists, newestPrice : {NONE}, price : PxValues,
     lastPrice : PxValues, currentPrice : {NONE}, yesPrice : {NONE, 400}]

\* the ledger takes no part in SpecPrice
LedgerParked ==
    /\ balance = 0 /\ positions = <<>> /\ heap = <<>> /\ trades = <<>>
    /\ market_analyses = <<>> /\ price_history = <<>> /\ pnl_history = <<>>
    /\ is_running = FALSE /\ task = <<>> /\ cur = "" /\ now = 0
    /\ feed = <<>> /\ ticks = 0 /\ stops = 0
    /\ tl = <<>> /\ pl = <<>> /\ sl = <<>> /\ realized = 0 /\ last = <<>>

InitPrice ==
    /\ LedgerParked
    /\ px_market \in PxMarkets
    /\ has_clob \in BOOLEAN
    /\ px_result = PxPending

\* price_yes, price_no = await self._get_outcome_prices(market, client)
PxExtract ==
    /\ px_result = PxPending
    /\ \E clobTokens \in PxTokenLists :
          px_result' = GetOutcomePrices(px_market, has_clob, clobTokens)
    /\ UNCHANGED <<px_market, has_clob>>
    /\ UNCHANGED ledgerVars

NextPrice == PxExtract

SpecPrice == InitPrice /\ [][NextPrice]_vars

(***************************************************************************)
(* SpecLedger: _open_position and _close_position applied to the ledger    *)
(* with arguments of any kind, the loops left out                          *)
(***************************************************************************)
\* number of TradingPosition objects created
MaxLedgerOpens == 3

\* prices inside the band, and sizes in cents of which the larger cannot be
\* paid twice out of the initial balance
LedgerPrices == {250, 500}

LedgerSizes == {4000, 150000}

\* the loops and the extractor take no part in SpecLedger
LoopsParked ==
    /\ market_analyses = <<>> /\ price_history = <<>>
    /\ is_running = FALSE /\ task = <<>> /\ cur = "" /\ now = 0
    /\ feed = <<>> /\ ticks = 0 /\ stops = 0
    /\ tl = <<>> /\ pl = <<>> /\ sl = <<>>
    /\ px_market = NoMarket /\ has_clob = FALSE /\ px_result = PxPending

loopVars == <<market_analyses, price_history, is_running, task, cur, now,
              feed, ticks, stops, tl, pl, sl, px_market, has_clob, px_result>>

\* TradingBot.__init__ (trading_bot.py:77-88)
InitLedger ==
    /\ LoopsParked
    /\ balance = InitialBalance
    /\ positions = <<>>
    /\ heap = <<>>
    /\ trades = <<>>
    /\ pnl_history = <<>>
    /\ realized = 0
    /\ last = NoOp

\* await self._open_position(market, analysis, outcome, title, price, size,
\* strategy, reason, trade_type)
LedgerOpen ==
    /\ Len(heap) < MaxLedgerOpens
    /\ \E outcome \in {"Yes", "No"}, price \in LedgerPrices,
          size \in LedgerSizes :
          /\ SetLedger(OpenPosition(Ledger, "m1", outcome, price, size,
                                    "momentum", "momentum", "swing", now))
          /\ last' = [op |-> "open", by |-> "caller",
                      key |-> PositionKey("m1", outcome),
                      existed |-> HasKey(positions, PositionKey("m1", outcome)),
                      applied |-> size <= balance,
                      price |-> price, size |-> size, before |-> balance]
    /\ UNCHANGED loopVars

\* await self._close_position(position, current_price, title, reason), the
\* position being any TradingPosition object created so far
LedgerClose ==
    /\ \E obj \in 1..Len(heap), current_price \in LedgerPrices :
          LET key == PositionKey(heap[obj].market_id, heap[obj].outcome)
          IN  /\ SetLedger(ClosePosition(Ledger, obj, current_price, "exit", now))
              /\ last' = [op |-> "close", by |-> "caller", key |-> key,
                          obj |-> obj,
                          stored |-> IF HasKey(positions, key)
                                     THEN ObjOf(positions, key) ELSE 0,
                          applied |-> HasKey(positions, key),
                          price |-> current_price, reason |-> "exit"]
    /\ UNCHANGED loopVars

NextLedger == LedgerOpen \/ LedgerClose

SpecLedger == InitLedger /\ [][NextLedger]_vars

(***************************************************************************)
(* SpecArb: analyze_market on a pair of prices                             *)
(***************************************************************************)
\* analysis = await self.analyze_market(market) on a record without history,
\* the extracted prices being any two of eleven values (trading_bot.py:
\* 447-480, 506-604)
ArbAnalyze ==
    /\ \E price_yes, price_no \in {0, 100, 400, 480, 490, 495, 500, 520, 550,
                                   900, 1000} :
          \E r \in {AnalyzeMarket(MarketRecord("m1", <<>>, <<>>, NONE),
                                  <<price_yes, price_no>>, <<>>)} :
             last' = [op |-> "analyze", price_yes |-> price_yes,
                      price_no |-> price_no, raised |-> r.raised,
                      arbitrage_opportunity |->
                          IF r.raised THEN NONE
                          ELSE r.analysis.arbitrage_opportunity]
    /\ UNCHANGED <<balance, positions, heap, trades, pnl_history, realized>>
    /\ UNCHANGED loopVars

SpecArb == InitLedger /\ [][ArbAnalyze]_vars

(***************************************************************************)
(* SpecApi: SpecLedger with the snapshot operations the API layer calls    *)
(***************************************************************************)
\* get_stats(), get_positions(), get_recent_trades(), get_pnl_history() or
\* get_market_analyses(): get_stats and get_pnl_history call
\* self._update_pnl_history() (trading_bot.py:1941, 1977), the three others
\* build their answer from the ledger and assign nothing
ApiSnapshot ==
    /\ \E call \in {"get_stats", "get_positions", "get_recent_trades",
                    "get_pnl_history", "get_market_analyses"} :
          /\ SetLedger(IF call \in {"get_stats", "get_pnl_history"}
                       THEN UpdatePnlHistory(Ledger, now)
                       ELSE Ledger)
          /\ last' = [op |-> "get", by |-> "api", call |-> call]
    /\ UNCHANGED loopVars

NextApi == LedgerOpen \/ LedgerClose \/ ApiSnapshot

SpecApi == InitLedger /\ [][NextApi]_vars

(***************************************************************************)
(* SpecPnl: the samples of the P&L history, taken by closes and by the     *)
(* snapshot calls as time passes, on a bot that has run for a while        *)
(***************************************************************************)
\* steps of the clock
MaxPnlTicks == 2

\* TradingPosition objects created
MaxPnlOpens == 2

\* the n samples of an earlier stretch without profit or loss, 31 s apart,
\* the last one taken now
OldSamples(n) == [j \in 1..n |-> [t |-> (j - n) * 31, pnl |-> 0]]

\* a bot just constructed, or one whose history holds 199 or 200 samples
InitPnl ==
    /\ LoopsParked
    /\ balance = InitialBalance
    /\ positions = <<>>
    /\ heap = <<>>
    /\ trades = <<>>
    /\ pnl_history \in {OldSamples(n) : n \in {0, PnlHistoryCap - 1,
                                               PnlHistoryCap}}
    /\ realized = 0
    /\ last = NoOp

\* await self._open_position(...) of m1-Yes at 0.50 with size 40.00, the key
\* being absent
PnlOpen ==
    /\ Len(heap) < MaxPnlOpens
    /\ positions = <<>>
    /\ SetLedger(OpenPosition(Ledger, "m1", "Yes", 500, 4000, "momentum",
                              "momentum", "swing", now))
    /\ last' = [op |-> "open", by |-> "caller",
                key |-> PositionKey("m1", "Yes"), existed |-> FALSE,
                applied |-> TRUE, price |-> 500, size |-> 4000,
                before |-> balance]
    /\ UNCHANGED loopVars

\* await self._close_position(position, current_price, ...) of the position
\* stored, at the entry price, 0.2% above it or at half of it
PnlClose ==
    /\ positions # <<>>
    /\ \E current_price \in {500, 501, 250} :
          LET key == positions[1].key
              obj == ObjOf(positions, key)
          IN  /\ SetLedger(ClosePosition(Ledger, obj, current_price, "exit",
                                         now))
              /\ last' = [op |-> "close", by |-> "caller", key |-> key,
                          obj |-> obj, stored |-> obj, applied |-> TRUE,
                          price |-> current_price, reason |-> "exit"]
    /\ UNCHANGED loopVars

\* 3 s or 31 s pass
PnlTick ==
    /\ ticks < MaxPnlTicks
    /\ ticks' = ticks + 1
    /\ \E dt \in {3, 31} : now' = now + dt
    /\ last' = NoOp
    /\ UNCHANGED <<balance, positions, heap, trades, pnl_history, realized>>
    /\ UNCHANGED <<market_analyses, price_history, is_running, task, cur, feed,
                   stops, tl, pl, sl, px_market, has_clob, px_result>>

NextPnl == PnlOpen \/ PnlClose \/ ApiSnapshot \/ PnlTick

SpecPnl == InitPnl /\ [][NextPnl]_vars

(***************************************************************************)
(* SpecScore: analyze_market called again and again on one market, whose   *)
(* record carries any of a few volumes and liquidities and whose extracted *)
(* prices are any of a few pairs                                           *)
(***************************************************************************)
\* calls of analyze_market: five samples give a momentum and a trend
MaxScoreAnalyses == 5

\* pairs (price_yes, price_no): at the tier bounds of the mean-reversion
\* bonus and next to them, at 0.5, and two pairs whose sum is below 0.98
ScorePrices ==
    {<<150, 850>>, <<200, 800>>, <<300, 700>>, <<450, 550>>, <<500, 500>>,
     <<800, 200>>, <<400, 550>>, <<490, 485>>}

\* the record: volume and liquidity 0 (the CLOB form) or large
ScoreRecords ==
    {[MarketRecord("m1", <<>>, <<>>, NONE)
         EXCEPT !.volume = v, !.liquidity = q] : v \in {0, 60000},
                                                 q \in {0, 30000}}

InitScore ==
    /\ balance = InitialBalance
    /\ positions = <<>> /\ heap = <<>> /\ trades = <<>>
    /\ pnl_history = <<>> /\ realized = 0 /\ last = NoOp
    /\ market_analyses = [m \in Markets |-> NoAnalysis]
    /\ price_history = [m \in Markets |-> <<>>]
    /\ is_running = FALSE /\ task = <<>> /\ cur = "" /\ now = 0
    /\ feed \in [Markets -> ScoreRecords]
    /\ ticks = 0 /\ stops = 0 /\ tl = <<>> /\ pl = <<>> /\ sl = <<>>
    /\ px_market = NoMarket /\ has_clob = FALSE /\ px_result = PxPending

\* analysis = await self.analyze_market(market) (trading_bot.py:447-604).
\* The step records the values of the locals score (507, 551) and
\* mean_reversion_score (535-545, assigned in the branch without arbitrage
\* only), and whether the return statement raised.
ScoreAnalyze ==
    /\ Len(price_history["m1"]) < MaxScoreAnalyses
    /\ \E prices \in ScorePrices :
          \E r \in {AnalyzeMarket(feed["m1"], prices, price_history["m1"])} :
             LET arb == ArbitrageOpportunity(prices[1], prices[2])
             IN  /\ price_history' = [price_history EXCEPT !["m1"] = r.history]
                 /\ market_analyses' =
                       IF r.raised THEN market_analyses
                       ELSE [market_analyses EXCEPT !["m1"] = r.analysis]
                 /\ last' = [op |-> "analyze", price_yes |-> prices[1],
                             price_no |-> prices[2], raised |-> r.raised,
                             arbitrage_opportunity |-> arb,
                             score |-> IF arb # NONE THEN ArbitrageScore(arb)
                                       ELSE RawScore(feed["m1"], prices[1],
                                                     r.history),
                             mean_reversion_score |->
                                IF arb # NONE THEN NONE
                                ELSE MeanReversionScore(prices[1]),
                             analysis |-> r.analysis]
    /\ UNCHANGED <<balance, positions, heap, trades, pnl_history, realized>>
    /\ UNCHANGED <<is_running, task, cur, now, feed, ticks, stops, tl, pl, sl,
                   px_market, has_clob, px_result>>

SpecScore == InitScore /\ [][ScoreAnalyze]_vars

(***************************************************************************)
(* SpecEntry: the path of the two loops that opens positions, on one       *)
(* record of the source, each CLOB call answered in any way                *)
(***************************************************************************)
\* analyses made of the record
MaxEntryAnalyses == 2

\* TradingPosition objects created
MaxEntryOpens == 2

\* the record the batch holds: priced by its tokens, priced by its tokens
\* below par (0.40 + 0.55), no price at all, a last price quoted in cents, a
\* last price that is NaN
EntryRecords ==
    {MarketRecord("m1", YesNo(600, 400), <<>>, NONE),
     MarketRecord("m1", YesNo(400, 550), <<>>, NONE),
     MarketRecord("m1", <<>>, <<>>, NONE),
     MarketRecord("m1", <<>>, <<>>, 55000),
     MarketRecord("m1", <<>>, <<>>, NAN)}

\* what clob_client.get_market answers: nothing, or a tokens array
EntryClobAnswers == {<<>>, YesNo(600, 400), YesNo(50, 950)}

entryParked == <<is_running, task, cur, now, ticks, stops, tl, pl,
                 px_market, px_result, pnl_history, realized, feed, has_clob>>

InitEntry ==
    /\ balance = InitialBalance
    /\ positions = <<>>
    /\ heap = <<>>
    /\ trades = <<>>
    /\ market_analyses = [m \in Markets |-> NoAnalysis]
    /\ price_history = [m \in Markets |-> <<>>]
    /\ pnl_history = <<>>
    /\ realized = 0
    /\ last = NoOp
    /\ feed \in [Markets -> EntryRecords]
    /\ has_clob \in BOOLEAN
    /\ sl = <<>>
    /\ is_running = TRUE /\ task = <<>> /\ cur = "" /\ now = 0
    /\ ticks = 0 /\ stops = 0 /\ tl = <<>> /\ pl = <<>>
    /\ px_market = NoMarket /\ px_result = PxPending

\* analysis = await self.analyze_market(market) and its store by the trade
\* loop (trading_bot.py:949-953), the prices being numbers other than NaN
EntryAnalyze ==
    /\ Len(price_history["m1"]) < MaxEntryAnalyses
    /\ \E clob \in EntryClobAnswers :
          \E prices \in {GetOutcomePrices(feed["m1"], has_clob, clob)} :
             /\ prices[1] # NAN /\ prices[2] # NAN
             /\ \E r \in {AnalyzeMarket(feed["m1"], prices,
                                        price_history["m1"])} :
                   /\ price_history' = [price_history EXCEPT !["m1"] = r.history]
                   /\ market_analyses' =
                         IF r.raised THEN market_analyses
                         ELSE [market_analyses EXCEPT !["m1"] = r.analysis]
    /\ last' = NoOp
    /\ UNCHANGED <<balance, positions, heap, trades, sl>>
    /\ UNCHANGED entryParked

\* one opportunity of _execute_trades given to _execute_opportunity
\* (trading_bot.py:1487-1505, 1507-1678)
EntryTrade ==
    /\ Len(heap) < MaxEntryOpens
    /\ \E clob \in EntryClobAnswers :
          LET opps == SwingOpportunities(Batch(feed), market_analyses)
          IN  \E i \in 1..Len(opps) :
                 \E r \in {ExecuteOpportunity(
                              Ledger, opps[i],
                              GetOutcomePrices(opps[i].market, has_clob, clob),
                              now)} :
                    /\ SetLedger(r.ledger)
                    /\ last' = r.last
    /\ UNCHANGED <<market_analyses, price_history, sl>>
    /\ UNCHANGED <<is_running, task, cur, now, ticks, stops, tl, pl,
                   px_market, px_result, feed, has_clob>>

\* the scan of the scalp loop on the record (trading_bot.py:1090-1127), the
\* prices being numbers other than NaN
EntryScan ==
    /\ sl = <<>>
    /\ Len(price_history["m1"]) < MaxEntryAnalyses
    /\ ~FailsScalpFilter(feed["m1"])
    /\ \E clob \in EntryClobAnswers :
          \E prices \in {GetOutcomePrices(feed["m1"], has_clob, clob)} :
             /\ prices[1] # NAN /\ prices[2] # NAN
             /\ \E r \in {AnalyzeMarket(feed["m1"], prices,
                                        price_history["m1"])} :
                   /\ price_history' = [price_history EXCEPT !["m1"] = r.history]
                   /\ sl' = IF r.raised THEN <<>>
                            ELSE ScalpCandidate(feed["m1"], r.analysis,
                                                positions)
    /\ last' = NoOp
    /\ UNCHANGED <<balance, positions, heap, trades, market_analyses>>
    /\ UNCHANGED entryParked

\* one candidate of the opening pass of the scalp loop
\* (trading_bot.py:1135-1177)
EntryScalp ==
    /\ sl # <<>>
    /\ Len(heap) < MaxEntryOpens
    /\ sl' = Tail(sl)
    /\ LET opp == Head(sl)
           size == PositionSize(balance, opp.analysis.score)
       IN  IF balance < 50 \/ size > balance
           THEN /\ last' = NoOp
                /\ UNCHANGED <<balance, positions, heap, trades, pnl_history,
                               realized>>
           ELSE \E clob \in EntryClobAnswers :
                   \E r \in {OpenScalp(Ledger, opp, size,
                                       GetOutcomePrices(opp.market, has_clob,
                                                        clob),
                                       now)} :
                      /\ SetLedger(r.ledger)
                      /\ last' = r.last
    /\ UNCHANGED <<market_analyses, price_history>>
    /\ UNCHANGED <<is_running, task, cur, now, ticks, stops, tl, pl,
                   px_market, px_result, feed, has_clob>>

NextEntry == EntryAnalyze \/ EntryTrade \/ EntryScan \/ EntryScalp

SpecEntry == InitEntry /\ [][NextEntry]_vars

(***************************************************************************)
(* SpecSize: the opening paths of SpecEntry on a bot constructed with any  *)
(* of a few balances                                                       *)
(***************************************************************************)
\* TradingBot(initial_balance=...) in cents: below the minimum size, at it,
\* around the 0.50 floor of the scalp loop, around 5.00 (where 2% of the
\* balance is 0.10), and the default
SizeBalances == {9, 10, 49, 50, 300, 499, 500, 501, 5000, InitialBalance}

\* TradingBot.__init__(initial_balance) (trading_bot.py:77-88)
InitSize ==
    /\ balance \in SizeBalances
    /\ positions = <<>>
    /\ heap = <<>>
    /\ trades = <<>>
    /\ market_analyses = [m \in Markets |-> NoAnalysis]
    /\ price_history = [m \in Markets |-> <<>>]
    /\ pnl_history = <<>>
    /\ realized = 0
    /\ last = NoOp
    /\ feed \in [Markets -> EntryRecords]
    /\ has_clob \in BOOLEAN
    /\ sl = <<>>
    /\ is_running = TRUE /\ task = <<>> /\ cur = "" /\ now = 0
    /\ ticks = 0 /\ stops = 0 /\ tl = <<>> /\ pl = <<>>
    /\ px_market = NoMarket /\ px_result = PxPending

SpecSize == InitSize /\ [][NextEntry]_vars

(***************************************************************************)
(* SpecCycle: one cycle of the trade loop, or one of the scalp loop, on a  *)
(* batch of seven markets priced by their own records, the trade list      *)
(* holding the trades of earlier round trips                               *)
(***************************************************************************)
\* the batch the fetch of the cycle returned, in its order
CycleIds == <<"m1", "m2", "m3", "m4", "m5", "m6", "m7">>

\* the trade list after n round trips closed at their entry price, the
\* newest first (trading_bot.py:1831, 1880)
OldTrades(n) ==
    [i \in 1..(2 * n) |->
        [market_id |-> "m0", timestamp |-> 0,
         action |-> IF i % 2 = 1 THEN "SELL" ELSE "BUY", outcome |-> "Yes",
         price |-> 500, size |-> 4000, reason |-> "",
         profit |-> IF i % 2 = 1 THEN 0 ELSE NONE, strategy |-> "",
         trade_type |-> "swing"]]

\* the state in which the fetch of a cycle has returned: of the trade loop
\* (trading_bot.py:881-899) or of the scalp loop (1081-1088). A record of the
\* batch is priced 0.6 / 0.4 by its own tokens and carries a volume and a
\* liquidity: the CLOB form (0, 0) or one of two others.
InitCycle ==
    LET ids == {CycleIds[i] : i \in 1..Len(CycleIds)}
        shapes == {<<0, 0>>, <<20000, 5000>>, <<40000, 15000>>}
        record(id, v) == [MarketRecord(id, YesNo(600, 400), <<>>, NONE)
                             EXCEPT !.volume = v[1], !.liquidity = v[2]]
        batch == [i \in 1..Len(CycleIds) |-> feed[CycleIds[i]]]
    IN  /\ balance = InitialBalance
        /\ positions = <<>>
        /\ heap = <<>>
        /\ \E n \in {0, 248, 250} :
              /\ trades = OldTrades(n)
              /\ pnl_history = IF n = 0 THEN <<>> ELSE <<[t |-> 0, pnl |-> 0]>>
        /\ market_analyses = [m \in ids |-> NoAnalysis]
        /\ price_history = [m \in ids |-> <<>>]
        /\ is_running = TRUE
        /\ task = [l \in Loops |-> "live"]
        /\ now = 0
        /\ \E v1, v2, v3 \in shapes :
              feed = [m \in ids |->
                         record(m, IF m = "m1" THEN v1
                                   ELSE IF m = "m2" THEN v2
                                   ELSE IF m = "m3" THEN v3
                                   ELSE IF m = "m5" THEN <<20000, 5000>>
                                   ELSE IF m = "m6" THEN <<40000, 15000>>
                                   ELSE <<0, 0>>)]
        /\ ticks = 0
        /\ stops = 0
        /\ \/ /\ cur = "trade"
              /\ tl = [TradeIdle EXCEPT !.cycle_count = 1, !.cycles = 1,
                                        !.pc = "analyze", !.markets = batch,
                                        !.i = 1]
              /\ sl = ScalpIdle
           \/ /\ cur = "scalp"
              /\ sl = [ScalpIdle EXCEPT !.cycles = 1, !.pc = "scan",
                                        !.markets = FirstN(batch, ScalpScanCap),
                                        !.i = 1, !.opps = <<>>]
              /\ tl = TradeIdle
        /\ pl = RefreshIdle
        /\ realized = 0
        /\ last = NoOp
        /\ px_market = NoMarket
        /\ has_clob = FALSE
        /\ px_result = PxPending

\* the steps of the cycle: no position is open when it starts, so that the
\* refresh pass of the trade loop has nothing to go over
NextCycle ==
    \/ TradeAnalyze
    \/ TradeExecute
    \/ TradeExit
    \/ TradeAdvance
    \/ ScalpScan
    \/ ScalpOpen
    \/ ScalpAdvance

SpecCycle == InitCycle /\ [][NextCycle]_vars

(***************************************************************************)
(* SpecTasks: start() and stop() called in any order, every task that was  *)
(* ever created being kept: task[l] lists the tasks created for loop l in  *)
(* the order of their creation, and the handle of the loop (self._task,    *)
(* self._position_update_task, self._scalping_task) is the last of them    *)
(***************************************************************************)
\* tasks created for one loop
MaxStarts == 3

\* the task the handle of loop l refers to, "none" for None
Handle(l) == IF task[l] = <<>> THEN "none" ELSE task[l][Len(task[l])]

\* the tasks of loop l that run and have not been cancelled
LiveTasks(l) == {i \in 1..Len(task[l]) : task[l][i] = "live"}

\* TradingBot.__init__ (trading_bot.py:77-88): is_running is True and the
\* three handles are None
InitTasks ==
    /\ balance = InitialBalance
    /\ positions = <<>> /\ heap = <<>> /\ trades = <<>>
    /\ market_analyses = <<>> /\ price_history = <<>> /\ pnl_history = <<>>
    /\ is_running = TRUE
    /\ task = [l \in Loops |-> <<>>]
    /\ cur = NoTask /\ now = 0 /\ feed = <<>> /\ ticks = 0 /\ stops = 0
    /\ tl = <<>> /\ pl = <<>> /\ sl = <<>>
    /\ realized = 0
    /\ last = NoOp
    /\ px_market = NoMarket /\ has_clob = FALSE /\ px_result = PxPending

tasksParked == <<balance, positions, heap, trades, market_analyses,
                 price_history, pnl_history, cur, now, feed, ticks, stops,
                 tl, pl, sl, realized, px_market, has_clob, px_result>>

\* start() that creates its three tasks whatever the handles hold
TaskStartUnguarded ==
    /\ Len(task["trade"]) < MaxStarts
    /\ is_running' = TRUE
    /\ task' = [l \in Loops |-> Append(task[l], "live")]
    /\ last' = [op |-> "start", created |-> TRUE, stopped |-> ~is_running,
                running |-> \A l \in Loops : Handle(l) = "live"]
    /\ UNCHANGED tasksParked

\* start(polymarket_client) (trading_bot.py:135-146): the call does something
\* only if self._task is None or done; it then sets is_running and creates
\* the three tasks
TaskStart ==
    /\ LET created == Handle("trade") \in {"none", "done"}
       IN  /\ created => Len(task["trade"]) < MaxStarts
           /\ is_running' = IF created THEN TRUE ELSE is_running
           /\ task' = IF created
                      THEN [l \in Loops |-> Append(task[l], "live")]
                      ELSE task
           /\ last' = [op |-> "start", created |-> created,
                       stopped |-> ~is_running,
                       running |-> \A l \in Loops : Handle(l) = "live"]
    /\ UNCHANGED tasksParked

\* stop() (trading_bot.py:148-156): is_running is cleared and each handle
\* whose task is not done is cancelled
TaskStop ==
    /\ is_running' = FALSE
    /\ task' = [l \in Loops |->
                  IF Handle(l) = "live"
                  THEN [task[l] EXCEPT ![Len(task[l])] = "cancelling"]
                  ELSE task[l]]
    /\ last' = [op |-> "stop"]
    /\ UNCHANGED tasksParked

\* a cancelled task is resumed: CancelledError is raised at the await it is
\* parked on (or before its first step) and the task is done
\* (trading_bot.py:1004-1005, 1068-1069, 1183-1184).  The test of
\* `while self.is_running` never ends a task: whenever is_running is False
\* every task that is not done has been cancelled.
TaskCancelled ==
    /\ \E l \in Loops : \E i \in 1..Len(task[l]) :
          /\ task[l][i] = "cancelling"
          /\ task' = [task EXCEPT ![l][i] = "done"]
    /\ last' = NoOp
    /\ UNCHANGED is_running
    /\ UNCHANGED tasksParked

NextTasks == TaskStart \/ TaskStop \/ TaskCancelled

SpecTasks == InitTasks /\ [][NextTasks]_vars

(***************************************************************************)
(* Properties of the ledger under the three loops (Spec)                   *)
(***************************************************************************)
\* sum(p.size for p in self.positions.values()): the money committed to the
\* open positions
RECURSIVE CommittedSize(_, _)
CommittedSize(d, h) ==
    IF d = <<>> THEN 0 ELSE h[Head(d).obj].size + CommittedSize(Tail(d), h)

\* set(self.positions.keys())
KeysOf(d) == {d[i].key : i \in 1..Len(d)}

\* the keys the scalp loop has found absent (trading_bot.py:1119) and has not
\* yet opened a position for (trading_bot.py:1176)
ScalpPendingKeys ==
    IF sl.pc = "scan" \/ sl.pc = "open"
    THEN {PositionKey(sl.opps[j].analysis.market_id, sl.opps[j].outcome) :
             j \in (IF sl.pc = "open" THEN sl.i ELSE 1)..Len(sl.opps)}
    ELSE {}

\* C1: the balance is never negative, whatever the loops do and however
\* they interleave.
C1_BalanceNeverNegative == balance >= 0

\* C2: the balance plus the sizes of the open positions equals the initial
\* balance plus the profit of every close performed so far.
C2_MoneyConserved ==
    balance + CommittedSize(positions, heap) = InitialBalance + realized

\* C3: an open is never applied to a key that already holds an open position.
C3_NoSecondOpenOnKey ==
    (last.op = "open" /\ last.applied) => ~last.existed

\* C4: an open on a key that already holds a position is rejected: the
\* balance, the position stored under the key and the trade list stay as
\* they were.
C4_DuplicateOpenRejected ==
    [][(last'.op = "open" /\ last'.existed)
         => /\ balance' = balance
            /\ trades' = trades
            /\ positions' = positions
            /\ heap'[ObjOf(positions', last'.key)] = heap[ObjOf(positions, last'.key)]]_vars

\* C5: a close that is applied works on the position object stored under its
\* key at that moment, never on another object of the same key.
C5_CloseUsesStoredObject ==
    (last.op = "close" /\ last.applied) => last.obj = last.stored

\* C6: from the scalp loop's check that a key is absent to its insert and
\* debit for that key, no other loop's open or close on that key and no other
\* loop's debit of the balance takes effect.
C6_CheckThenOpenSerialized ==
    [][\A k \in ScalpPendingKeys :
          (last'.op \in {"open", "close"} /\ last'.by # "scalp" /\ last'.applied)
             => (last'.key # k /\ balance' >= balance)]_vars

\* C7: a price refresh neither adds nor removes a key of the positions and
\* changes neither the balance nor the size or entry price of any position.
C7_RefreshOnlyReprices ==
    [][last'.op = "refresh"
         => /\ KeysOf(positions') = KeysOf(positions)
            /\ balance' = balance
            /\ \A o \in 1..Len(heap) :
                  /\ heap'[o].size = heap[o].size
                  /\ heap'[o].entry_price = heap[o].entry_price]_vars

\* C8: no position is opened on a market for which the price extraction of
\* that step returned (None, None).
C8_NoOpenWithoutPrices ==
    last.op = "open" => last.fresh # <<NONE, NONE>>

\* C9: when the price extraction returns (None, None) for a market of the
\* analysis pass, the analysis stored for that market stays as it was.
C9_StoredAnalysisKept ==
    [][(/\ tl.pc = "analyze"
        /\ tl.i <= Len(tl.markets)
        /\ tl'.pc = "analyze"
        /\ tl'.i = tl.i + 1
        /\ market_analyses[tl.markets[tl.i].id] # NoAnalysis
        /\ PricesNow(tl.markets[tl.i]) = <<NONE, NONE>>)
         => market_analyses' = market_analyses]_vars

\* C10: the extractor returns (None, None) or two prices strictly between 0
\* and 1; it never returns a pair with a value <= 0 or >= 1.
C10_PricesInOpenUnitInterval ==
    px_result # PxPending =>
        \/ px_result = <<NONE, NONE>>
        \/ (InUnit(px_result[1]) /\ InUnit(px_result[2]))

(***************************************************************************)
(* Properties of the ledger operations (SpecLedger)                        *)
(***************************************************************************)
\* C11: an open whose size exceeds the balance returns without effect:
\* balance, the open-position map and the trade list are what they were,
\* and so are the objects and the P&L samples.
C11_OpenBeyondBalanceIsNoOp ==
    [][(last'.op = "open" /\ last'.size > balance)
          => /\ balance' = balance
             /\ positions' = positions
             /\ trades' = trades
             /\ heap' = heap
             /\ pnl_history' = pnl_history]_vars

\* an open of a size above the balance has been called, on a ledger that
\* holds a position and a trade
C11_Reached ==
    /\ last.op = "open"
    /\ last.size > balance
    /\ ~last.applied
    /\ positions # <<>>
    /\ trades # <<>>

\* C13: an open that is applied debits the balance by exactly the size, stores
\* under the key a new position with entry_price = current_price = price and
\* unrealized_pnl = 0, puts one BUY trade without profit at the head of the
\* trade list, and changes nothing else: the other keys, the objects that
\* exist, the older trades, the P&L samples and the realized profit.
C13_OpenApplies ==
    [][(last'.op = "open" /\ last'.applied)
          => /\ balance' = balance - last'.size
             /\ KeysOf(positions') = KeysOf(positions) \cup {last'.key}
             /\ ObjOf(positions', last'.key) = Len(heap) + 1
             /\ \A k \in KeysOf(positions) \ {last'.key} :
                   ObjOf(positions', k) = ObjOf(positions, k)
             /\ Len(heap') = Len(heap) + 1
             /\ \A i \in 1..Len(heap) : heap'[i] = heap[i]
             /\ heap'[Len(heap')].entry_price = last'.price
             /\ heap'[Len(heap')].current_price = last'.price
             /\ heap'[Len(heap')].unrealized_pnl = 0
             /\ heap'[Len(heap')].size = last'.size
             /\ PositionKey(heap'[Len(heap')].market_id,
                            heap'[Len(heap')].outcome) = last'.key
             /\ Tail(trades') = trades
             /\ Head(trades').action = "BUY"
             /\ Head(trades').profit = NONE
             /\ Head(trades').price = last'.price
             /\ Head(trades').size = last'.size
             /\ pnl_history' = pnl_history
             /\ realized' = realized]_vars

\* an open has been applied on a ledger that held another position and
\* trades already
C13_Reached ==
    /\ last.op = "open"
    /\ last.applied
    /\ Len(positions) >= 2
    /\ Len(trades) >= 3

\* C14: a close of an open position (the object stored under its key) at a
\* price credits the balance by size * (price / entry_price), removes the key
\* from the open-position map and leaves the other keys alone, and puts at the
\* head of the trade list one SELL trade whose profit is
\* size * (price / entry_price) - size.
C14_CloseApplies ==
    [][(last'.op = "close" /\ last'.applied /\ last'.obj = last'.stored)
          => LET position == heap[last'.obj]
                 current_value == Quot(position.size * last'.price,
                                       position.entry_price)
             IN  /\ balance' = balance + current_value
                 /\ KeysOf(positions') = KeysOf(positions) \ {last'.key}
                 /\ \A k \in KeysOf(positions') :
                       ObjOf(positions', k) = ObjOf(positions, k)
                 /\ Tail(trades') = trades
                 /\ Head(trades').action = "SELL"
                 /\ Head(trades').price = last'.price
                 /\ Head(trades').size = position.size
                 /\ Head(trades').profit = current_value - position.size
                 /\ realized' = realized + Head(trades').profit
                 /\ heap' = heap]_vars

\* an open position has been closed at a price other than its entry price,
\* while another position stayed open
C14_Reached ==
    /\ last.op = "close"
    /\ last.applied
    /\ last.obj = last.stored
    /\ last.price # heap[last.obj].entry_price
    /\ positions # <<>>

C16_CloseOfClosedIsNoOp ==
    [][(last'.op = "close" /\ ~HasKey(positions, last'.key))
          => /\ ~last'.applied
             /\ balance' = balance
             /\ positions' = positions
             /\ trades' = trades
             /\ heap' = heap
             /\ pnl_history' = pnl_history
             /\ realized' = realized]_vars

\* the same position has been closed twice in a row, the second time with
\* no effect, while another position is open
C16_Reached ==
    /\ last.op = "close"
    /\ ~last.applied
    /\ trades # <<>>
    /\ Head(trades).action = "SELL"
    /\ Head(trades).size = heap[last.obj].size
    /\ PositionKey(Head(trades).market_id, Head(trades).outcome) = last.key
    /\ positions # <<>>

(***************************************************************************)
(* Properties of the opening path (SpecEntry)                              *)
(***************************************************************************)
\* C12: every position ever opened, and every BUY trade, has its entry price
\* inside the band [0.10, 0.99], whichever loop opened it.
C12_EntryPriceInBand ==
    /\ \A i \in 1..Len(heap) :
          /\ heap[i].entry_price # NAN
          /\ 100 <= heap[i].entry_price
          /\ heap[i].entry_price <= 990
    /\ \A i \in 1..Len(trades) :
          trades[i].action = "BUY"
             => /\ trades[i].price # NAN
                /\ 100 <= trades[i].price
                /\ trades[i].price <= 990

(***************************************************************************)
(* Properties of the loops under the event loop's scheduling (SpecLive)    *)
(***************************************************************************)
\* C17: once stop() has returned, and until start() runs again, no step
\* changes the balance, the open positions, their objects or the trade list;
\* a stop() that follows another with no start() in between changes nothing
\* of the engine; and after a stop() the three loops all terminate (unless
\* the engine is started again first).
C17_StopQuiesces ==
    /\ [][~is_running
             => /\ balance' = balance
                /\ positions' = positions
                /\ heap' = heap
                /\ trades' = trades]_vars
    /\ [][(stops >= 1 /\ stops' = stops + 1)
             => UNCHANGED <<balance, positions, heap, trades, pnl_history,
                            market_analyses, price_history, is_running, task,
                            tl, pl, sl>>]_vars
    /\ [](~is_running
             => <>(is_running \/ \A l \in Loops : task[l] \in {"none", "done"}))

\* stop() has been called twice while a position was open, and the three
\* loops, stopped in the middle of their work, have terminated
C17_Reached ==
    /\ stops = 2
    /\ ~is_running
    /\ \A l \in Loops : task[l] = "done"
    /\ positions # <<>>
    /\ trades # <<>>

\* C18: a step in which a cycle of a loop fails ends no task: all three stay
\* live, the failing loop is parked on its backoff sleep with the event loop
\* free, and the ledger and the other two loops are as they were; and after
\* the failure the loop starts another cycle, unless the engine is stopped
\* first (or, for the refresh loop, no position is left to refresh).  A cycle
\* fails only while the loop has a cycle left to run, so n ranges below the
\* bound.
C18_FailureIsSurvived ==
    /\ [][(last'.op = "fail" /\ last' # last)
             => /\ task' = task
                /\ \A l \in Loops : task'[l] = "live"
                /\ cur' = NoTask
                /\ is_running'
                /\ (last'.by = "trade") => (tl'.pc = "idle" /\ pl' = pl /\ sl' = sl)
                /\ (last'.by = "refresh") => (pl'.pc = "idle" /\ tl' = tl /\ sl' = sl)
                /\ (last'.by = "scalp") => (sl'.pc = "idle" /\ tl' = tl /\ pl' = pl)
                /\ UNCHANGED <<balance, positions, heap, trades>>]_vars
    /\ \A n \in 0..(MaxTradeCycles - 1) :
          [](last = [op |-> "fail", by |-> "trade"] /\ tl.cycles = n
                => <>(~is_running \/ tl.cycles > n))
    /\ \A n \in 0..(MaxRefreshCycles - 1) :
          [](last = [op |-> "fail", by |-> "refresh"] /\ pl.cycles = n
                => <>(~is_running \/ positions = <<>> \/ pl.cycles > n))
    /\ \A n \in 0..(MaxScalpCycles - 1) :
          [](last = [op |-> "fail", by |-> "scalp"] /\ sl.cycles = n
                => <>(~is_running \/ sl.cycles > n))

\* the trade loop is in a cycle it started after a failed one (a failed cycle
\* counts in cycle_count alone), with the other loops alive and a position
\* open
C18_Reached ==
    /\ tl.pc = "execute"
    /\ tl.cycle_count > tl.cycles
    /\ \A l \in Loops : task[l] = "live"
    /\ positions # <<>>

(***************************************************************************)
(* Properties of the exit pass of the trade loop (Spec)                    *)
(***************************************************************************)
\* C19: a pass of the exit check that prices a scalp position calls
\* _close_position for it with the reason "Scalp profit target: +2%" when its
\* profit ratio is above 0.02 and with "Scalp stop loss: -0.8%" when it is
\* below -0.008, whatever the default rule would say; when the position is
\* still stored, it is removed and a SELL trade with that reason heads the
\* trade list.  At entry 1.00 the rule gives the profit target for 1.021 and
\* the stop loss for 0.991.
C19_ScalpRulesFirst ==
    /\ ExitReason([entry_price |-> 1000, trade_type |-> "scalp",
                   strategy |-> "volume_scalp", entry_time |-> 0],
                  1021, NoAnalysis, 0) = "Scalp profit target: +2%"
    /\ ExitReason([entry_price |-> 1000, trade_type |-> "scalp",
                   strategy |-> "volume_scalp", entry_time |-> 0],
                  991, NoAnalysis, 0) = "Scalp stop loss: -0.8%"
    /\ [][(/\ tl.pc = "exit"
           /\ tl.i <= Len(tl.snap)
           /\ tl'.pc = "exit"
           /\ tl'.i = tl.i + 1
           /\ heap[tl.snap[tl.i].obj].trade_type = "scalp"
           /\ FindMarket(tl.markets, heap[tl.snap[tl.i].obj].market_id) # NoMarket
           /\ market_analyses[heap[tl.snap[tl.i].obj].market_id] # NoAnalysis
           /\ PricesNow(FindMarket(tl.markets, heap[tl.snap[tl.i].obj].market_id))
                 # <<NONE, NONE>>)
             => LET position == heap[tl.snap[tl.i].obj]
                    prices == PricesNow(FindMarket(tl.markets, position.market_id))
                    cp == IF position.outcome = "Yes" THEN prices[1] ELSE prices[2]
                    ep == position.entry_price
                    key == PositionKey(position.market_id, position.outcome)
                    closedAs(reason) ==
                        /\ last'.op = "close"
                        /\ last'.obj = tl.snap[tl.i].obj
                        /\ last'.price = cp
                        /\ last'.reason = reason
                        /\ ~HasKey(positions', key)
                        /\ last'.applied
                              => /\ Head(trades').action = "SELL"
                                 /\ Head(trades').reason = reason
                                 /\ Len(trades') = Len(trades) + 1
                IN  /\ ProfitAbove(cp, ep, 20)
                          => closedAs("Scalp profit target: +2%")
                    /\ ProfitBelow(cp, ep, 8)
                          => closedAs("Scalp stop loss: -0.8%")]_vars

\* the exit pass has just closed a stored scalp position whose profit was
\* also above the 12% of the default rule, with the scalp reason
C19_Reached ==
    /\ last.op = "close"
    /\ last.by = "trade"
    /\ last.applied
    /\ last.reason = "Scalp profit target: +2%"
    /\ Head(trades).trade_type = "scalp"
    /\ Head(trades).reason = "Scalp profit target: +2%"
    /\ ProfitAbove(last.price, heap[last.obj].entry_price, 120)

\* C20: every pass of the exit check over a position that is still open
\* evaluates it: the position's market is in the batch, an analysis of it is
\* stored and its prices are obtained, and when no rule of its trade type or
\* strategy fires, a profit ratio above 0.12 or below -0.06 closes it with the
\* reason of the default rule.
C20_EveryPositionEvaluated ==
    [][(/\ tl.pc = "exit"
        /\ tl.i <= Len(tl.snap)
        /\ tl'.pc = "exit"
        /\ tl'.i = tl.i + 1
        /\ HasKey(positions, tl.snap[tl.i].key)
        /\ ObjOf(positions, tl.snap[tl.i].key) = tl.snap[tl.i].obj)
          => LET position == heap[tl.snap[tl.i].obj]
                 market == FindMarket(tl.markets, position.market_id)
                 analysis == market_analyses[position.market_id]
                 prices == PricesNow(market)
                 cp == IF position.outcome = "Yes" THEN prices[1] ELSE prices[2]
             IN  /\ market # NoMarket
                 /\ analysis # NoAnalysis
                 /\ prices # <<NONE, NONE>>
                 /\ (/\ StrategyExit(position, cp, analysis, now) = ""
                     /\ ProfitAbove(cp, position.entry_price, 120))
                       => /\ last'.op = "close"
                          /\ last'.reason = "Take profit: Strong profit target"
                          /\ ~HasKey(positions', tl.snap[tl.i].key)
                 /\ (/\ StrategyExit(position, cp, analysis, now) = ""
                     /\ ProfitBelow(cp, position.entry_price, 60))
                       => /\ last'.op = "close"
                          /\ last'.reason = "Stop loss: Risk limit reached"
                          /\ ~HasKey(positions', tl.snap[tl.i].key)]_vars

\* C21: a pass of the exit check over a scalp position that is still open and
\* was opened more than two hours ago closes it: with the timeout reason when
\* its profit ratio is inside the scalp bands, with the reason of the band
\* otherwise.
C21_OverdueScalpClosed ==
    [][(/\ tl.pc = "exit"
        /\ tl.i <= Len(tl.snap)
        /\ tl'.pc = "exit"
        /\ tl'.i = tl.i + 1
        /\ HasKey(positions, tl.snap[tl.i].key)
        /\ ObjOf(positions, tl.snap[tl.i].key) = tl.snap[tl.i].obj
        /\ heap[tl.snap[tl.i].obj].trade_type = "scalp"
        /\ now - heap[tl.snap[tl.i].obj].entry_time > ScalpTimeout)
          => LET position == heap[tl.snap[tl.i].obj]
                 prices == PricesNow(FindMarket(tl.markets, position.market_id))
                 cp == IF position.outcome = "Yes" THEN prices[1] ELSE prices[2]
             IN  /\ ~HasKey(positions', tl.snap[tl.i].key)
                 /\ last'.op = "close"
                 /\ last'.reason \in {"Scalp profit target: +2%",
                                      "Scalp stop loss: -0.8%",
                                      "Scalp timeout: 2 hours"}
                 /\ (/\ ~ProfitAbove(cp, position.entry_price, 20)
                     /\ ~ProfitBelow(cp, position.entry_price, 8))
                       => last'.reason = "Scalp timeout: 2 hours"]_vars

\* C22: scalp positions are closed by the scalp loop itself: every close of a
\* position of trade type "scalp" is a step of the scalp loop, never one of
\* the trade loop.
C22_ScalpLoopCloses ==
    [][(/\ last'.op = "close"
        /\ last' # last
        /\ heap[last'.obj].trade_type = "scalp")
          => last'.by = "scalp"]_vars

(***************************************************************************)
(* Properties of the selection of candidates (SpecEntry)                   *)
(***************************************************************************)
\* C23: once a market whose prices offer an arbitrage has been analysed, the
\* candidates the trade loop acts on hold its arbitrage candidate, and no
\* candidate of another strategy comes before it.
C23_ArbitrageFirst ==
    \A m \in Markets :
       LET prices == GetOutcomePrices(feed[m], FALSE, <<>>)
           opps == SwingOpportunities(Batch(feed), market_analyses)
       IN  (/\ ~has_clob
            /\ price_history[m] # <<>>
            /\ prices[1] >= 0 /\ prices[2] >= 0
            /\ ArbitrageOpportunity(prices[1], prices[2]) # NONE)
              => \E i \in 1..Len(opps) :
                    /\ opps[i].strategy = "arbitrage"
                    /\ opps[i].market.id = m
                    /\ \A j \in 1..(i - 1) : opps[j].strategy = "arbitrage"

(***************************************************************************)
(* Properties of one cycle on a batch of seven markets (SpecCycle)         *)
(***************************************************************************)
\* the priorities of q never increase
Descending(q) == \A i \in 1..(Len(q) - 1) : q[i].priority >= q[i + 1].priority

\* C24: the candidates a cycle acts on are in descending order of priority and
\* at most 6 in the trade loop and 5 in the scalp loop, none left out has a
\* higher priority than one kept, they are acted on one after the other in
\* that order, each opening at most one position, and the cycle opens at most
\* 6 (5) positions.
C24_CappedByPriority ==
    /\ [](/\ tl.pc = "execute"
             => /\ Len(tl.opps) <= 6
                /\ Descending(tl.opps)
                /\ \A i \in 1..Len(tl.markets) :
                      LET a == market_analyses[tl.markets[i].id]
                      IN  (a # NoAnalysis /\ a.score > 5000)
                             => \/ \E j \in 1..Len(tl.opps) :
                                      tl.opps[j].market = tl.markets[i]
                                \/ /\ Len(tl.opps) = 6
                                   /\ a.score \div 1000 <= tl.opps[6].priority
          /\ sl.pc = "open" => Len(sl.opps) <= 5 /\ Descending(sl.opps)
          /\ tl.cycles = 1 => Len(heap) <= 6
          /\ sl.cycles = 1 => Len(heap) <= 5)
    /\ [][/\ (tl.pc = "execute" /\ tl' # tl /\ tl'.pc = "execute")
             => /\ tl'.i = tl.i + 1
                /\ tl'.opps = tl.opps
                /\ Len(heap') <= Len(heap) + 1
                /\ Len(heap') = Len(heap) + 1
                      => heap'[Len(heap')].market_id = tl.opps[tl.i].market.id
          /\ (sl.pc = "scan" /\ sl'.pc = "open")
             => \A i \in 1..Len(sl.opps) :
                   \/ \E j \in 1..Len(sl'.opps) : sl'.opps[j] = sl.opps[i]
                   \/ /\ Len(sl'.opps) = 5
                      /\ sl.opps[i].priority <= sl'.opps[5].priority
          /\ (sl.pc = "open" /\ sl' # sl /\ sl'.pc = "open")
             => /\ sl'.i = sl.i + 1
                /\ sl'.opps = sl.opps
                /\ Len(heap') <= Len(heap) + 1
                /\ Len(heap') = Len(heap) + 1
                      => heap'[Len(heap')].market_id = sl.opps[sl.i].market.id]_vars

\* the execution pass of a trade cycle with seven candidates is over and has
\* opened six positions
C24_Reached ==
    /\ tl.pc = "exit"
    /\ Len(heap) = 6
    /\ Len(Candidates(tl.markets, market_analyses)) = 7

\* C25: a step that adds a trade puts it at the head of the list and keeps
\* the rest; a step that shortens the list keeps its head part, so that the
\* trades removed are the oldest and the newest stays at the head; the list
\* holds at most 500 trades when a cycle of the trade loop ends.
C25_NewestFirstBounded ==
    [][/\ Len(trades') > Len(trades)
          => Len(trades') = Len(trades) + 1 /\ Tail(trades') = trades
       /\ Len(trades') < Len(trades)
          => /\ trades' = SubSeq(trades, 1, Len(trades'))
             /\ Head(trades') = Head(trades)
       /\ (tl.pc = "exit" /\ tl'.pc = "idle") => Len(trades') <= 500]_vars

(***************************************************************************)
(* Properties of the open set under the three loops (Spec)                 *)
(***************************************************************************)
\* C26: a step that removes a key from the open positions is a close of that
\* key: it removes no other key, credits the balance with the value the close
\* computed (the size plus the profit of its trade) and puts a SELL trade of
\* the key's market and outcome at the head of the trade list.
C26_RemovalIsClose ==
    [][\A i \in 1..Len(positions) :
          ~HasKey(positions', positions[i].key)
             => /\ last'.op = "close"
                /\ last'.key = positions[i].key
                /\ last'.applied
                /\ \A j \in 1..Len(positions) :
                      j # i => HasKey(positions', positions[j].key)
                /\ Len(trades') = Len(trades) + 1
                /\ Tail(trades') = trades
                /\ Head(trades').action = "SELL"
                /\ PositionKey(Head(trades').market_id, Head(trades').outcome)
                      = positions[i].key
                /\ balance' = balance + Head(trades').size
                                      + Head(trades').profit]_vars

\* a close has just removed a key that was stored
C26_Reached ==
    /\ last.op = "close"
    /\ last.applied
    /\ ~HasKey(positions, last.key)
    /\ trades # <<>>
    /\ Head(trades).action = "SELL"

(***************************************************************************)
(* Properties of the snapshot operations (SpecApi)                         *)
(***************************************************************************)
\* C27: a call of a snapshot operation leaves the balance, the open
\* positions and their objects, the trade list and the P&L history as they
\* were.
C27_SnapshotsReadOnly ==
    [][last'.op = "get"
          => UNCHANGED <<balance, positions, heap, trades, pnl_history>>]_vars

(***************************************************************************)
(* Properties of the arbitrage test (SpecArb)                              *)
(***************************************************************************)
\* C28: the analysis of a market carries an arbitrage_opportunity exactly
\* when price_yes + price_no < 0.98 and (1 - (price_yes + price_no)) * 100
\* > 0.5, and it is then (1 - (price_yes + price_no)) * 100; it is present and
\* positive for (0.40, 0.55) and absent for (0.50, 0.52).  Prices in
\* thousandths, the profit in thousandths of a percent.
C28_ArbitrageExact ==
    last.op = "analyze"
       => LET price_sum == last.price_yes + last.price_no
              profit == (1000 - price_sum) * 100
          IN  /\ ~last.raised
              /\ last.arbitrage_opportunity # NONE
                    <=> (price_sum < 980 /\ profit > 500)
              /\ last.arbitrage_opportunity # NONE
                    => last.arbitrage_opportunity = profit
              /\ (last.price_yes = 400 /\ last.price_no = 550)
                    => /\ last.arbitrage_opportunity # NONE
                       /\ last.arbitrage_opportunity > 0
              /\ (last.price_yes = 500 /\ last.price_no = 520)
                    => last.arbitrage_opportunity = NONE

(***************************************************************************)
(* Properties of the reported figures (Spec)                               *)
(***************************************************************************)
\* sum of size * (current_price / entry_price) over the open positions
RECURSIVE CurrentValue(_, _)
CurrentValue(d, h) ==
    IF d = <<>> THEN 0
    ELSE Quot(h[Head(d).obj].size * h[Head(d).obj].current_price,
              h[Head(d).obj].entry_price)
         + CurrentValue(Tail(d), h)

\* C29: the net worth get_stats reports equals the balance plus the current
\* value of the open positions.
C29_NetWorthIdentity ==
    NetWorth(Ledger) = balance + CurrentValue(positions, heap)

\* a pass of the refresh over a position whose market is missing from the
\* fetched markets, or for which no price is extracted, leaves the position
\* and the rest of the ledger as they were (trading_bot.py:1035-1040)
FailedRefreshLeaves ==
    [][LET Failed(loc) ==
               LET market == FindMarket(loc.markets,
                                        heap[loc.snap[loc.i].obj].market_id)
               IN  \/ market = NoMarket
                   \/ PricesNow(market) = <<NONE, NONE>>
           Passed(loc, after) ==
               /\ loc.pc = "update"
               /\ loc.i <= Len(loc.snap)
               /\ after.pc = "update"
               /\ after.i = loc.i + 1
       IN  /\ (Passed(tl, tl') /\ Failed(tl))
                 => UNCHANGED <<heap, positions, balance, trades>>
           /\ (Passed(pl, pl') /\ Failed(pl))
                 => UNCHANGED <<heap, positions, balance, trades>>]_vars

\* C30: every open position has unrealized_pnl == size * (current_price /
\* entry_price) - size.  The comparison is the one of Python floats: it is
\* false when a side is NaN.
C30_UnrealizedIsMarked ==
    \A i \in 1..Len(positions) :
       LET position == heap[positions[i].obj]
       IN  /\ position.entry_price # NAN
           /\ position.current_price # NAN
           /\ position.unrealized_pnl =
                 Quot(position.size * position.current_price,
                      position.entry_price) - position.size

(***************************************************************************)
(* Properties of the size of an open (SpecSize)                            *)
(***************************************************************************)
\* C31: every position opened by the trade loop or the scalp loop has a size
\* of at least 0.10 and of at most 2% of the balance held immediately before
\* the open, whatever the balance
C31_SizeWithinBounds ==
    [][(last'.op = "open" /\ last'.applied)
          => (last'.size >= 10 /\ 50 * last'.size <= balance)]_vars

(***************************************************************************)
(* Properties of the ledger once a loop has been cancelled (Spec)          *)
(***************************************************************************)
\* the trades of q with the given action
TradesOf(q, action) == {j \in 1..Len(q) : q[j].action = action}

\* C32: in every state that follows the cancellation of a loop or a stop of
\* the engine, no open or close is left partially applied: the sizes debited
\* and not credited back are those of the positions of the open set, every
\* position object created has its BUY trade and the profit of every close
\* applied is that of a SELL trade recorded.
C32_NothingHalfApplied ==
    (stops > 0 \/ \E l \in Loops : task[l] \in {"cancelling", "done"})
       => /\ balance + CommittedSize(positions, heap) = InitialBalance + realized
          /\ Cardinality(TradesOf(trades, "BUY")) = Len(heap)
          /\ RealizedPnl(trades) = realized

(***************************************************************************)
(* Properties of start() and stop() (SpecTasks)                            *)
(***************************************************************************)
\* C33: whatever the sequence of start() and stop() calls, each of the three
\* loops has at most one task that runs and is not cancelled, and a start()
\* called while the three loops run creates no task.
C33_OneLiveTaskPerLoop ==
    /\ [](\A l \in Loops : Cardinality(LiveTasks(l)) <= 1)
    /\ [][(last'.op = "start" /\ \A l \in Loops : LiveTasks(l) # {})
             => task' = task]_vars

\* start() has been called on a started engine whose loops had been stopped
\* and restarted before
C33_Reached ==
    /\ last.op = "start" /\ ~last.created /\ last.running
    /\ \A l \in Loops : Len(task[l]) >= 2 /\ LiveTasks(l) # {}

\* C34: a start() called after stop() brings the engine back to running:
\* after the call is_running is true and each of the three loops has a task
\* that runs, also when the call comes before the tasks cancelled by the
\* stop have finished.
C34_StartAfterStopRestarts ==
    (last.op = "start" /\ last.stopped)
       => (is_running /\ \A l \in Loops : Handle(l) = "live")

(***************************************************************************)
(* Properties of the score of an analysis (SpecScore)                      *)
(***************************************************************************)
\* C35: every call of analyze_market yields an analysis whose score is not
\* negative, and whose score lies in the band 80..100 when the prices hold
\* an arbitrage opportunity.
C35_ScoreUnsignedAndBanded ==
    last.op = "analyze"
       => /\ ~last.raised
          /\ last.analysis.score >= 0
          /\ (last.arbitrage_opportunity # NONE
                => /\ last.analysis.arbitrage_opportunity
                         = last.arbitrage_opportunity
                   /\ last.analysis.score >= 80000
                   /\ last.analysis.score <= 100000)

\* C36: of two analyses, one made on prices that hold an arbitrage
\* opportunity and the other not, the first has the strictly greater score.
C36_ArbitrageOutranks ==
    [][(last.op = "analyze" /\ last'.op = "analyze")
          => /\ (last.arbitrage_opportunity # NONE
                 /\ last'.arbitrage_opportunity = NONE)
                   => last.score > last'.score
             /\ (last.arbitrage_opportunity = NONE
                 /\ last'.arbitrage_opportunity # NONE)
                   => last'.score > last.score]_vars

\* C37: of two analyses without arbitrage, the one whose price_yes is not
\* nearer to 0.5 has a mean-reversion bonus that is not smaller.
C37_BonusMonotone ==
    [][(/\ last.op = "analyze" /\ last'.op = "analyze"
        /\ last.mean_reversion_score # NONE
        /\ last'.mean_reversion_score # NONE
        /\ Abs(last.price_yes - 500) <= Abs(last'.price_yes - 500))
          => last.mean_reversion_score <= last'.mean_reversion_score]_vars

(***************************************************************************)
(* Properties of the trade list against the open set (Spec)                *)
(***************************************************************************)
\* the trades of q with the given action on the position market_id-outcome
KeyTrades(q, action, market_id, outcome) ==
    {j \in TradesOf(q, action) :
        q[j].market_id = market_id /\ q[j].outcome = outcome}

\* C38: as long as no trade has been dropped from the list, the BUY trades of
\* every position key outnumber its SELL trades by 0 or by 1, and by 1
\* exactly when the key is in the open set.
C38_BuysMatchSells ==
    \A m \in Markets, o \in {"Yes", "No"} :
       LET open == Cardinality(KeyTrades(trades, "BUY", m, o))
                   - Cardinality(KeyTrades(trades, "SELL", m, o))
       IN  /\ open \in {0, 1}
           /\ open = 1 <=> HasKey(positions, PositionKey(m, o))

C40_HistorySampledAndBounded ==
    /\ [](Len(pnl_history) <= 200)
    /\ [][pnl_history' # pnl_history
            => IF pnl_history = <<>>
               THEN Len(pnl_history') = 1 /\ pnl_history'[1].pnl = 0
               ELSE LET sample == pnl_history'[Len(pnl_history')]
                        before == pnl_history[Len(pnl_history)]
                    IN  /\ sample.t = now
                        /\ sample.pnl = RealizedPnl(trades)
                                        + UnrealizedPnl(positions, heap)
                        /\ (Abs(sample.pnl - before.pnl) > 10
                            \/ sample.t - before.t > 30)
                        /\ pnl_history' =
                              IF Len(pnl_history) < 200
                              THEN Append(pnl_history, sample)
                              ELSE Append(Tail(pnl_history), sample)]_vars

\* a history that was full has dropped its oldest sample for one taken on a
\* change of the total P&L
C40_Reached ==
    /\ Len(pnl_history) = 200
    /\ pnl_history[1] # OldSamples(200)[1]
    /\ pnl_history[200].pnl # 0
    /\ pnl_history[200].t - pnl_history[199].t <= 30

====
